---- MODULE Spec2Model ----
(***************************************************************************)
(* A model of the I18n class (translation resolution, interpolation, the   *)
(* result cache, locale switching with listeners, safe merge, bundle      *)
(* loading through the in-process map and the durable cache).              *)
(*                                                                         *)
(* Representation.                                                         *)
(*  - A JavaScript string is a sequence of one-character strings, so that  *)
(*    split("."), the placeholder scan, template literals and              *)
(*    JSON.stringify are computed character by character.                  *)
(*  - A JavaScript object lives in `heap` and is referred to by its index: *)
(*    assigning an object stores the reference, as in the source.  An      *)
(*    object is the sequence of its own properties in insertion order.     *)
(*  - Property names, keys and locale names range over names that are not  *)
(*    properties of Object.prototype, except where an own property of that *)
(*    name is stored by the code itself.                                   *)
(*  - The host's Storage is the sequence of its items in the order of      *)
(*    storage.key(i).  The text that JSON.stringify writes for a cache     *)
(*    entry is held as the record of what it says (url, timestamp, data as *)
(*    a tree); JSON.parse of it builds new objects.                        *)
(*  - Date.now() is the variable `now`; it does not advance inside a call. *)
(***************************************************************************)
EXTENDS Integers, Sequences, FiniteSets, TLC

VARIABLES
    currentLocale,      \* I18n.currentLocale
    defaultLocale,      \* I18n.defaultLocale
    localesArray,       \* I18n.localesArray (localesSet is its set of elements)
    translations,       \* I18n.translations: locale -> reference into heap
    heap,               \* the objects reachable from the engine and its callers
    fallbackBehavior,   \* I18n.fallbackBehavior
    escapeHtmlEnabled,  \* I18n.escapeHtmlEnabled
    cacheEnabled,       \* I18n.cacheEnabled
    cacheMaxSize,       \* I18n.cacheMaxSize
    translationCache,   \* I18n.translationCache: Map in insertion order
    keyCache,           \* I18n.keyCache: Map key -> segments
    callbacks,          \* I18n.callbacks: Set in insertion order
    loadedUrls,         \* I18n.loadedUrls: Map url -> reference into heap
    persistentEnabled,  \* I18n.persistentCacheConfig.enabled
    persistentMaxEntries, \* I18n.persistentCacheConfig.maxEntries
    persistentTtl,      \* I18n.persistentCacheConfig.ttl
    hostStorage,        \* typeof globalThis.localStorage !== "undefined"
    storage,            \* the items of the Storage that getStorage() returns
    now,                \* Date.now()
    hostDispatch,       \* typeof globalThis.dispatchEvent === "function"
    pending,            \* loadTranslationsAsync calls suspended at `await fetch`
    disposers,          \* the disposers onChange has returned, in order
    last                \* what the most recent call did and returned

vars == << currentLocale, defaultLocale, localesArray, translations, heap,
           fallbackBehavior, escapeHtmlEnabled, cacheEnabled, cacheMaxSize,
           translationCache, keyCache, callbacks, loadedUrls,
           persistentEnabled, persistentMaxEntries, persistentTtl, hostStorage,
           storage, now, hostDispatch, pending, disposers, last >>

---------------------------------------------------------------------------
(* Strings *)

RECURSIVE Concat(_)
\* The concatenation of a sequence of strings (a template literal).
Concat(parts) ==
    IF parts = << >> THEN << >> ELSE Head(parts) \o Concat(Tail(parts))

\* The least index of character c in string s, 0 when s has none.
IndexOf(s, c) ==
    IF \E i \in 1..Len(s) : s[i] = c
    THEN CHOOSE i \in 1..Len(s) : s[i] = c /\ \A j \in 1..(i - 1) : s[j] # c
    ELSE 0

RECURSIVE Split(_)
\* String.prototype.split(".")
Split(s) ==
    LET i == IndexOf(s, ".") IN
    IF i = 0 THEN << s >>
    ELSE << SubSeq(s, 1, i - 1) >> \o Split(SubSeq(s, i + 1, Len(s)))

DIGITS == << "0", "1", "2", "3", "4", "5", "6", "7", "8", "9" >>

RECURSIVE Decimal(_)
\* String(n) for a natural number n
Decimal(n) ==
    IF n < 10 THEN << DIGITS[n + 1] >>
    ELSE Decimal(n \div 10) \o << DIGITS[(n % 10) + 1] >>

\* \w of a JavaScript regular expression: [A-Za-z0-9_]
WORD_CHARS ==
    { "a", "b", "c", "d", "e", "f", "g", "h", "i", "j", "k", "l", "m",
      "n", "o", "p", "q", "r", "s", "t", "u", "v", "w", "x", "y", "z",
      "A", "B", "C", "D", "E", "F", "G", "H", "I", "J", "K", "L", "M",
      "N", "O", "P", "Q", "R", "S", "T", "U", "V", "W", "X", "Y", "Z",
      "0", "1", "2", "3", "4", "5", "6", "7", "8", "9", "_" }

---------------------------------------------------------------------------
(* Values and objects *)

Undefined == [tag |-> "undefined", s |-> << >>, o |-> 0]
StringValue(s) == [tag |-> "string", s |-> s, o |-> 0]
ObjectValue(id) == [tag |-> "object", s |-> << >>, o |-> id]

\* The index of own property k in object obj, 0 when it has none.
PropIndex(obj, k) ==
    IF \E i \in 1..Len(obj) : obj[i].k = k
    THEN CHOOSE i \in 1..Len(obj) : obj[i].k = k
    ELSE 0

\* obj[k]
GetProp(obj, k) ==
    LET i == PropIndex(obj, k) IN IF i = 0 THEN Undefined ELSE obj[i].v

\* obj[k] = v
SetProp(obj, k, v) ==
    LET i == PropIndex(obj, k) IN
    IF i = 0 THEN Append(obj, [k |-> k, v |-> v])
    ELSE [obj EXCEPT ![i] = [k |-> k, v |-> v]]

\* Object.keys(obj)
ObjectKeys(obj) == [i \in 1..Len(obj) |-> obj[i].k]

\* An object literal, as a caller or JSON.parse builds it: a sequence of
\* entries [k, leaf, s, kids], a leaf holding the string s and an inner node
\* the literal kids.
Leaf(k, s) == [k |-> k, leaf |-> TRUE, s |-> s, kids |-> << >>]
Node(k, kids) == [k |-> k, leaf |-> FALSE, s |-> << >>, kids |-> kids]

RECURSIVE AllocProps(_, _, _)
RECURSIVE Alloc(_, _)
\* Evaluating the literal lit on heap h: [h |-> the new heap, id |-> the
\* reference of the new object].
Alloc(h, lit) ==
    LET id == Len(h) + 1 IN
    [h |-> AllocProps(Append(h, << >>), id, lit), id |-> id]

AllocProps(h, id, lit) ==
    IF lit = << >> THEN h
    ELSE LET p == Head(lit) IN
         IF p.leaf
         THEN AllocProps([h EXCEPT ![id] = SetProp(@, p.k, StringValue(p.s))],
                         id, Tail(lit))
         ELSE LET sub == Alloc(h, p.kids) IN
              AllocProps([sub.h EXCEPT ![id] = SetProp(@, p.k, ObjectValue(sub.id))],
                         id, Tail(lit))

RECURSIVE TreeOf(_, _)
\* The tree that the object id of heap h is the root of, as an object literal
TreeOf(h, id) ==
    [i \in 1..Len(h[id]) |->
        IF h[id][i].v.tag = "object"
        THEN Node(h[id][i].k, TreeOf(h, h[id][i].v.o))
        ELSE Leaf(h[id][i].k, h[id][i].v.s)]

---------------------------------------------------------------------------
(* Module constants *)

PROTO == << "_", "_", "p", "r", "o", "t", "o", "_", "_" >>
CONSTRUCTOR == << "c", "o", "n", "s", "t", "r", "u", "c", "t", "o", "r" >>
PROTOTYPE == << "p", "r", "o", "t", "o", "t", "y", "p", "e" >>

DANGEROUS_KEYS == { PROTO, CONSTRUCTOR, PROTOTYPE }

\* HTML_ESCAPE_MAP[char] || char, for one character
HTML_ESCAPE_MAP(c) ==
    CASE c = "&" -> << "&", "a", "m", "p", ";" >>
      [] c = "<" -> << "&", "l", "t", ";" >>
      [] c = ">" -> << "&", "g", "t", ";" >>
      [] c = "\"" -> << "&", "q", "u", "o", "t", ";" >>
      [] c = "'" -> << "&", "#", "3", "9", ";" >>
      [] OTHER -> << c >>

\* str.replace(HTML_ESCAPE_REGEX, ...)
escapeHtml(str) == Concat([i \in 1..Len(str) |-> HTML_ESCAPE_MAP(str[i])])

\* The size above which parseKey stops memoizing.
KEY_CACHE_LIMIT == 1000

---------------------------------------------------------------------------
(* Translation parameters *)

\* A TranslationParams value: absent (params === undefined), or an object
\* whose entries [k, v] are in insertion order.  A parameter value is a
\* string, a finite number (a natural n), NaN, Infinity, true or false.
NoParams == [given |-> FALSE, entries |-> << >>]
Params(entries) == [given |-> TRUE, entries |-> entries]
Str(s) == [tag |-> "string", s |-> s, n |-> 0]
Num(n) == [tag |-> "number", s |-> << >>, n |-> n]
NaN == [tag |-> "NaN", s |-> << >>, n |-> 0]
Infinity == [tag |-> "Infinity", s |-> << >>, n |-> 0]
BoolTrue == [tag |-> "true", s |-> << >>, n |-> 0]
BoolFalse == [tag |-> "false", s |-> << >>, n |-> 0]

\* String(value)
StringOf(v) ==
    CASE v.tag = "string" -> v.s
      [] v.tag = "number" -> Decimal(v.n)
      [] v.tag = "NaN" -> << "N", "a", "N" >>
      [] v.tag = "Infinity" -> << "I", "n", "f", "i", "n", "i", "t", "y" >>
      [] v.tag = "true" -> << "t", "r", "u", "e" >>
      [] v.tag = "false" -> << "f", "a", "l", "s", "e" >>
      [] v.tag = "prototype" -> << "[", "o", "b", "j", "e", "c", "t", " ",
                                   "O", "b", "j", "e", "c", "t", "]" >>
      [] v.tag = "function" -> << "f", "u", "n", "c", "t", "i", "o", "n", " ",
                                  "O", "b", "j", "e", "c", "t", "(", ")", " ",
                                  "{", " ", "[", "n", "a", "t", "i", "v", "e",
                                  " ", "c", "o", "d", "e", "]", " ", "}" >>

\* JSON.stringify of a string: quoted, with the quote and the backslash escaped
JSONQuote(s) ==
    << "\"" >>
    \o Concat([i \in 1..Len(s) |->
                 IF s[i] = "\"" THEN << "\\", "\"" >>
                 ELSE IF s[i] = "\\" THEN << "\\", "\\" >>
                 ELSE << s[i] >>])
    \o << "\"" >>

\* JSON.stringify of a parameter value: a number that is not finite is null
JSONValue(v) ==
    CASE v.tag = "string" -> JSONQuote(v.s)
      [] v.tag = "number" -> Decimal(v.n)
      [] v.tag \in {"NaN", "Infinity"} -> << "n", "u", "l", "l" >>
      [] v.tag = "true" -> << "t", "r", "u", "e" >>
      [] v.tag = "false" -> << "f", "a", "l", "s", "e" >>

RECURSIVE JSONMembers(_)
JSONMembers(entries) ==
    IF entries = << >> THEN << >>
    ELSE JSONQuote(Head(entries).k) \o << ":" >> \o JSONValue(Head(entries).v)
         \o (IF Len(entries) > 1 THEN << "," >> ELSE << >>)
         \o JSONMembers(Tail(entries))

\* JSON.stringify(params)
JSONStringify(params) == << "{" >> \o JSONMembers(params.entries) \o << "}" >>

\* What an object literal inherits from Object.prototype under the names
\* __proto__ (the prototype itself) and constructor (the function Object);
\* toString, valueOf, hasOwnProperty and the other inherited functions are
\* found in the same way
ObjectPrototype == [tag |-> "prototype", s |-> << >>, n |-> 0]
ObjectFunction == [tag |-> "function", s |-> << >>, n |-> 0]

\* params[name]: [found, v], found = the value is not undefined.  The
\* property is looked up in the object and then in Object.prototype.
ParamLookup(params, name) ==
    IF \E i \in 1..Len(params.entries) : params.entries[i].k = name
    THEN [found |-> TRUE,
          v |-> params.entries[CHOOSE i \in 1..Len(params.entries) :
                                   params.entries[i].k = name].v]
    ELSE IF name = PROTO THEN [found |-> TRUE, v |-> ObjectPrototype]
    ELSE IF name = CONSTRUCTOR THEN [found |-> TRUE, v |-> ObjectFunction]
    ELSE [found |-> FALSE, v |-> Str(<< >>)]

---------------------------------------------------------------------------
(* Key resolver *)

\* A parseKey that memoizes every key it splits
parseKeyUnbounded(e, key) ==
    IF key \in DOMAIN e.keyCache
    THEN [e |-> e, keys |-> e.keyCache[key]]
    ELSE [e |-> [e EXCEPT !.keyCache = (key :> Split(key)) @@ @],
          keys |-> Split(key)]

\* parseKey: [e |-> the engine afterwards, keys |-> the segments]
parseKey(e, key) ==
    IF key \in DOMAIN e.keyCache
    THEN [e |-> e, keys |-> e.keyCache[key]]
    ELSE LET keys == Split(key) IN
         IF Cardinality(DOMAIN e.keyCache) < KEY_CACHE_LIMIT
         THEN [e |-> [e EXCEPT !.keyCache = (key :> keys) @@ @], keys |-> keys]
         ELSE [e |-> e, keys |-> keys]

RECURSIVE Walk(_, _, _)
\* The loop of getNestedValue from value current over the segments keys, and
\* its final typeof test.
Walk(h, current, keys) ==
    IF keys = << >>
    THEN IF current.tag = "string" THEN current ELSE Undefined
    ELSE IF current.tag # "object" THEN Undefined
    ELSE LET next == GetProp(h[current.o], Head(keys)) IN
         IF next = Undefined THEN Undefined ELSE Walk(h, next, Tail(keys))

\* getNestedValue after its call of parseKey, which gave parsed
Walked(parsed, data) ==
    [e |-> parsed.e, value |-> Walk(parsed.e.heap, ObjectValue(data), parsed.keys)]

\* getNestedValue(data, key), data a reference:
\* [e |-> the engine afterwards, value |-> a string value or Undefined]
getNestedValue(e, data, key) == Walked(parseKey(e, key), data)

\* if (value): a string is truthy unless it is empty
Truthy(value) == value.tag = "object" \/ (value.tag = "string" /\ value.s # << >>)

---------------------------------------------------------------------------
(* Interpolator *)

RECURSIVE WordEnd(_, _)
\* The least index >= i of text that holds no word character (Len + 1 if none)
WordEnd(text, i) ==
    IF i > Len(text) \/ text[i] \notin WORD_CHARS THEN i ELSE WordEnd(text, i + 1)

RECURSIVE ReplaceFrom(_, _, _, _)
\* text.replace(INTERPOLATION_REGEX, callback) from index i on
ReplaceFrom(text, i, params, shouldEscape) ==
    IF i > Len(text) THEN << >>
    ELSE LET j == WordEnd(text, i + 1) IN
         IF text[i] = "{" /\ j > i + 1 /\ j <= Len(text) /\ text[j] = "}"
         THEN LET name == SubSeq(text, i + 1, j - 1)
                  value == ParamLookup(params, name)
                  strValue == StringOf(value.v)
              IN (IF ~value.found THEN << "{" >> \o name \o << "}" >>
                  ELSE IF shouldEscape THEN escapeHtml(strValue)
                  ELSE strValue)
                 \o ReplaceFrom(text, j + 1, params, shouldEscape)
         ELSE << text[i] >> \o ReplaceFrom(text, i + 1, params, shouldEscape)

\* interpolate(text, params)
interpolate(e, text, params) ==
    IF ~params.given THEN text
    ELSE ReplaceFrom(text, 1, params, e.escapeHtmlEnabled)

---------------------------------------------------------------------------
(* Maps and Sets in insertion order *)

\* Map.prototype.get: [found, v]
MapGet(map, k) ==
    IF \E i \in 1..Len(map) : map[i].k = k
    THEN [found |-> TRUE, v |-> map[CHOOSE i \in 1..Len(map) : map[i].k = k].v]
    ELSE [found |-> FALSE, v |-> << >>]

\* Map.prototype.delete, Storage.removeItem
MapDelete(map, k) ==
    LET Other(entry) == entry.k # k IN SelectSeq(map, Other)

\* Map.prototype.set: an existing key keeps its place, a new one goes last
MapSet(map, k, v) ==
    IF \E i \in 1..Len(map) : map[i].k = k
    THEN [i \in 1..Len(map) |-> IF map[i].k = k THEN [k |-> k, v |-> v] ELSE map[i]]
    ELSE Append(map, [k |-> k, v |-> v])

\* A Set's list of entries keeps a removed entry's slot (marked Removed) for
\* as long as an iteration may be running over it; an iteration visits the
\* slots by index, so it skips what was removed before its turn and reaches
\* what was added meanwhile.
Removed == "(removed)"
SetHas(set, x) == \E i \in 1..Len(set) : set[i] = x
SetAdd(set, x) == IF SetHas(set, x) THEN set ELSE Append(set, x)
SetDelete(set, x) == [i \in 1..Len(set) |-> IF set[i] = x THEN Removed ELSE set[i]]
IsEntry(x) == x # Removed
SetEntries(set) == SelectSeq(set, IsEntry)

---------------------------------------------------------------------------
(* Result cache *)

\* getCacheKey(key, params)
getCacheKey(e, key, params) ==
    IF ~params.given \/ Len(params.entries) = 0
    THEN e.currentLocale \o << ":" >> \o key
    ELSE e.currentLocale \o << ":" >> \o key \o << ":" >> \o JSONStringify(params)

\* addToCache(cacheKey, value)
addToCache(e, cacheKey, value) ==
    LET kept == IF Len(e.translationCache) >= e.cacheMaxSize
                   /\ e.translationCache # << >>
                THEN Tail(e.translationCache)
                ELSE e.translationCache
    IN [e EXCEPT !.translationCache = MapSet(kept, cacheKey, value)]

---------------------------------------------------------------------------
(* Translation engine *)

\* this.translations[locale], for if (localeData)
HasTable(e, locale) == locale \in DOMAIN e.translations

\* getNestedValue on the table of locale, Undefined when there is no table
\* or when skip holds (the lookup is not made)
Lookup(e, locale, key, skip) ==
    IF skip \/ ~HasTable(e, locale) THEN [e |-> e, value |-> Undefined]
    ELSE getNestedValue(e, e.translations[locale], key)

\* The default branch of handleMissingTranslation, found the result of its
\* lookup in the default locale's table
MissingDefault(found, key) ==
    [e |-> found.e, ret |-> IF Truthy(found.value) THEN found.value.s ELSE key]

\* handleMissingTranslation(key): [e, ret]
handleMissingTranslation(e, key) ==
    CASE e.fallbackBehavior = "empty" -> [e |-> e, ret |-> << >>]
      [] e.fallbackBehavior = "default" ->
            MissingDefault(Lookup(e, e.defaultLocale, key, FALSE), key)
      [] OTHER -> [e |-> e, ret |-> key]

\* t once result is interpolated: the result is cached and returned
Return(e, key, params, result) ==
    [e |-> IF e.cacheEnabled
           THEN addToCache(e, getCacheKey(e, key, params), result)
           ELSE e,
     ret |-> result]

\* t where a lookup gave the truthy string at.value
Found(at, key, params) ==
    Return(at.e, key, params, interpolate(at.e, at.value.s, params))

\* t from the lookup in the default locale's table, which gave def, on
FromDefault(def, key, params) ==
    IF Truthy(def.value) THEN Found(def, key, params)
    ELSE handleMissingTranslation(def.e, key)

\* A t that goes from the current locale's table straight to the policy
FromCurrentOnly(cur, key, params) ==
    IF Truthy(cur.value) THEN Found(cur, key, params)
    ELSE handleMissingTranslation(cur.e, key)

\* t from the lookup in the current locale's table, which gave cur, on
FromCurrent(cur, key, params) ==
    IF Truthy(cur.value) THEN Found(cur, key, params)
    ELSE FromDefault(Lookup(cur.e, cur.e.defaultLocale, key,
                            cur.e.currentLocale = cur.e.defaultLocale),
                     key, params)

\* The part of t after the cache check
Resolve(e, key, params) ==
    FromCurrent(Lookup(e, e.currentLocale, key, FALSE), key, params)

\* t(key, params): [e |-> the engine afterwards, ret |-> the string returned]
t(e, key, params) ==
    LET cached == MapGet(e.translationCache, getCacheKey(e, key, params)) IN
    IF e.cacheEnabled /\ cached.found
    THEN [e |-> e, ret |-> cached.v]
    ELSE Resolve(e, key, params)

\* has after its lookup, which gave found
Had(found) == [e |-> found.e, ret |-> found.value # Undefined]

\* A has that also looks in the default locale's table
hasAnywhere(e, key) ==
    [e |-> Lookup(e, e.currentLocale, key, FALSE).e,
     ret |-> \/ Lookup(e, e.currentLocale, key, FALSE).value # Undefined
             \/ Lookup(e, e.defaultLocale, key, FALSE).value # Undefined]

\* has(key): [e, ret]
has(e, key) == Had(Lookup(e, e.currentLocale, key, FALSE))

---------------------------------------------------------------------------
(* Listeners and locale switching *)

\* The key a listener translates when it is called.
ProbeKey == << "g" >>

\* The locale the re-entrant listener switches to.
SwitchTarget == << "e", "n" >>

\* The listener functions a caller registers.  Every one of them records its
\* argument, getLocale() and t(ProbeKey); then "x" throws, "r" calls the
\* disposer that onChange("b") returned, "s" calls setLocale(SwitchTarget),
\* and "a" and "b" do nothing more.
Listeners == { "a", "b", "x", "r", "s" }

\* A listener function's note of its call, probe what t gave it
Noted(probe, e, f, locale) ==
    [probe.e EXCEPT !.calls =
        Append(@, [fn |-> f, arg |-> locale, locale |-> e.currentLocale,
                   probe |-> probe.ret, cache |-> e.translationCache])]

\* What every listener function does first when called with locale
Observed(e, f, locale) == Noted(t(e, ProbeKey, NoParams), e, f, locale)

\* The disposer that onChange(callback) returned, called
dispose(e, callback) == [e EXCEPT !.callbacks = SetDelete(@, callback)]

\* A catch block that reports the exception and throws it again
rethrow(e) == [e EXCEPT !.errors = @ + 1, !.thrown = TRUE]

\* The catch block of notifyCallbacks: the exception ends there
reportError(e) == [e EXCEPT !.errors = @ + 1]

\* dispatchLanguageChangedEvent(locale, oldLocale)
dispatchLanguageChangedEvent(e, locale, oldLocale) ==
    IF e.hostDispatch
    THEN [e EXCEPT !.events = Append(@, [locale |-> locale, oldLocale |-> oldLocale])]
    ELSE e

\* A locale switch that leaves the result cache as it is
switchLocaleKeeping(e, locale) == [e EXCEPT !.currentLocale = locale]

\* setLocale from `this.currentLocale = locale` to the cache clear
switchLocale(e, locale) ==
    [e EXCEPT !.currentLocale = locale,
              !.translationCache = IF e.cacheEnabled THEN << >> ELSE @]

\* The frame of a setLocale call that has reached notifyCallbacks: its
\* arguments and the slot of the callback Set its loop is at
Frame(locale, oldLocale) == [locale |-> locale, oldLocale |-> oldLocale, i |-> 1]

\* The rest of listener function f's call inside try/catch, seen the engine
\* after its note; after holds the frames once the loop has moved on:
\* [e, frames]
Rest(seen, f, after) ==
    CASE f = "x" -> [e |-> reportError(seen), frames |-> after]
      [] f = "r" -> [e |-> dispose(seen, "b"), frames |-> after]
      [] f = "s" ->
            IF ~SetHas(seen.localesArray, SwitchTarget)
               \/ seen.currentLocale = SwitchTarget
            THEN [e |-> seen, frames |-> after]
            ELSE [e |-> switchLocale(seen, SwitchTarget),
                  frames |-> Append(after, Frame(SwitchTarget, seen.currentLocale))]
      [] OTHER -> [e |-> seen, frames |-> after]

\* The frames but the innermost, and then the innermost one slot further
Outer(frames) == SubSeq(frames, 1, Len(frames) - 1)
After(frames) == Append(Outer(frames), [frames[Len(frames)] EXCEPT !.i = @ + 1])

\* One step of the innermost setLocale call in progress, top its frame: the
\* loop of notifyCallbacks calls the listener in its slot, or, at its end,
\* the host event is dispatched and the call returns: [e, frames]
Step(e, frames, top) ==
    IF top.i > Len(e.callbacks)
    THEN [e |-> dispatchLanguageChangedEvent(e, top.locale, top.oldLocale),
          frames |-> Outer(frames)]
    ELSE IF e.callbacks[top.i] = Removed THEN [e |-> e, frames |-> After(frames)]
    ELSE Rest(Observed(e, e.callbacks[top.i], top.locale), e.callbacks[top.i],
              After(frames))

RECURSIVE Running(_)
\* The setLocale calls in progress, m.frames, run to their ends, the
\* innermost (last) first.  A listener that calls setLocale starts a call
\* inside the running one.  An exception that no catch block ends
\* (m.e.thrown) leaves every call in progress.
Running(m) ==
    IF m.frames = << >> \/ m.e.thrown THEN m.e
    ELSE Running(Step(m.e, m.frames, m.frames[Len(m.frames)]))

\* setLocale at its last statement, or left by an exception
Returned(done) == [e |-> done, ret |-> ~done.thrown]

\* A setLocale that does not look the locale up in the registry
setLocaleUnchecked(e, locale) ==
    IF e.currentLocale = locale THEN [e |-> e, ret |-> TRUE]
    ELSE Returned(Running([e |-> switchLocale(e, locale),
                           frames |-> << Frame(locale, e.currentLocale) >>]))

\* A setLocale that does not compare the locale with the current one
setLocaleAgain(e, locale) ==
    IF ~SetHas(e.localesArray, locale) THEN [e |-> e, ret |-> FALSE]
    ELSE Returned(Running([e |-> switchLocale(e, locale),
                           frames |-> << Frame(locale, e.currentLocale) >>]))

\* getLocale()
getLocale(e) == e.currentLocale

\* isLocaleSupported(locale)
isLocaleSupported(e, locale) == SetHas(e.localesArray, locale)

\* setLocale(locale): [e, ret]; e.thrown says that an exception leaves the
\* call instead of a return value
setLocale(e, locale) ==
    IF ~SetHas(e.localesArray, locale) THEN [e |-> e, ret |-> FALSE]
    ELSE IF e.currentLocale = locale THEN [e |-> e, ret |-> TRUE]
    ELSE Returned(Running([e |-> switchLocale(e, locale),
                           frames |-> << Frame(locale, e.currentLocale) >>]))

\* onChange(callback): the engine afterwards (the disposer returned deletes
\* callback from the Set)
onChange(e, callback) == [e EXCEPT !.callbacks = SetAdd(@, callback)]

\* removeAllListeners()
removeAllListeners(e) == [e EXCEPT !.callbacks = << >>]

\* clearCache()
clearCache(e) == [e EXCEPT !.translationCache = << >>]

---------------------------------------------------------------------------
(* Safe merger and loading *)

RECURSIVE mergeDeep(_, _, _)
RECURSIVE mergeKeys(_, _, _, _)

RECURSIVE mergeKeysShallow(_, _, _, _)
\* A merge loop that assigns every source value, an object included, without
\* descending into it
mergeKeysShallow(h, target, source, keys) ==
    IF keys = << >> THEN h
    ELSE IF Head(keys) \in DANGEROUS_KEYS
    THEN mergeKeysShallow(h, target, source, Tail(keys))
    ELSE mergeKeysShallow([h EXCEPT ![target] =
                              SetProp(@, Head(keys), GetProp(h[source], Head(keys)))],
                          target, source, Tail(keys))

\* The loop of mergeDeep over the remaining keys of Object.keys(source)
mergeKeys(h, target, source, keys) ==
    IF keys = << >> THEN h
    ELSE LET key == Head(keys)
             sourceValue == GetProp(h[source], key)
             targetValue == GetProp(h[target], key)
         IN IF key \in DANGEROUS_KEYS
            THEN mergeKeys(h, target, source, Tail(keys))
            ELSE IF sourceValue.tag = "object" /\ targetValue.tag = "object"
            THEN mergeKeys(mergeDeep(h, targetValue.o, sourceValue.o),
                           target, source, Tail(keys))
            ELSE mergeKeys([h EXCEPT ![target] = SetProp(@, key, sourceValue)],
                           target, source, Tail(keys))

\* mergeDeep(target, source) on heap h, target and source references: the
\* heap afterwards
mergeDeep(h, target, source) ==
    mergeKeys(h, target, source, ObjectKeys(h[source]))

\* loadTranslations once the table of locale exists
Merged(e, locale, data) ==
    [e EXCEPT !.heap = mergeDeep(@, e.translations[locale], data),
              !.translationCache = IF e.cacheEnabled THEN << >> ELSE @]

\* loadTranslations(locale, data), data a reference: the engine afterwards
loadTranslations(e, locale, data) ==
    Merged(IF HasTable(e, locale) THEN e
           ELSE [e EXCEPT !.heap = Append(@, << >>),
                          !.translations = (locale :> (Len(e.heap) + 1)) @@ @],
           locale, data)

---------------------------------------------------------------------------
(* Durable bundle cache *)

\* persistentCacheConfig.prefix, its default
PREFIX == << "i", "1", "8", "n", "_", "c", "a", "c", "h", "e", "_" >>

\* charCodeAt, for the characters that the URLs are written with
CharCode(c) ==
    CASE c = "1" -> 49 [] c = "2" -> 50 [] c = "A" -> 65 [] c = "B" -> 66
      [] c = "a" -> 97 [] c = "u" -> 117

\* The 16-bit two's complement integer that x is congruent to
ToInt16(x) == ((x + 32768) % 65536) - 32768

\* hash = ((hash << 5) - hash) + char; hash = hash & hash:
\* 31 * hash + char as a 32-bit two's complement integer, computed on the
\* 16-bit halves of hash
HashStep(hash, char) ==
    LET low == 31 * (hash % 65536) + char IN
    ToInt16(31 * (hash \div 65536) + (low \div 65536)) * 65536 + (low % 65536)

RECURSIVE HashFrom(_, _, _)
\* The loop of hashUrl from index i on
HashFrom(url, i, hash) ==
    IF i > Len(url) THEN hash
    ELSE HashFrom(url, i + 1, HashStep(hash, CharCode(url[i])))

DIGITS36 ==
    DIGITS \o << "a", "b", "c", "d", "e", "f", "g", "h", "i", "j", "k", "l", "m",
                 "n", "o", "p", "q", "r", "s", "t", "u", "v", "w", "x", "y", "z" >>

RECURSIVE ToString36(_)
\* n.toString(36), n a natural number
ToString36(n) ==
    IF n < 36 THEN << DIGITS36[n + 1] >>
    ELSE Append(ToString36(n \div 36), DIGITS36[(n % 36) + 1])

\* The least 32-bit integer; Math.abs of it is 2^31
INT32_MIN == -2147483647 - 1

\* hashUrl(url)
hashUrl(url) ==
    LET hash == HashFrom(url, 1, 0) IN
    IF hash = INT32_MIN THEN << "z", "i", "k", "0", "z", "k" >>
    ELSE ToString36(IF hash < 0 THEN -hash ELSE hash)

\* this.persistentCacheConfig.prefix + this.hashUrl(url)
StorageKey(url) == PREFIX \o hashUrl(url)

\* key.startsWith(prefix)
StartsWith(key, prefix) ==
    Len(key) >= Len(prefix) /\ SubSeq(key, 1, Len(prefix)) = prefix

\* A bundle as JSON text says it: an array or an object, and its tree
Body(array, tree) == [array |-> array, tree |-> tree]

\* The text JSON.stringify({ url, timestamp, data }) writes
Entry(url, timestamp, data) ==
    [tag |-> "entry", url |-> url, timestamp |-> timestamp, data |-> data]

\* An item whose text JSON.parse rejects
Text == [tag |-> "text", url |-> << >>, timestamp |-> 0, data |-> Body(FALSE, << >>)]

\* The item {}: an object with no url, no timestamp and no data
Fieldless ==
    [tag |-> "object", url |-> << >>, timestamp |-> 0, data |-> Body(FALSE, << >>)]

\* entry.data of an entry written without data: undefined
NoData == [undefined |-> TRUE]

\* getFromPersistentCache returning null
Miss(e) == [e |-> e, hit |-> FALSE, data |-> Body(FALSE, << >>)]

\* A read that takes an entry for expired as soon as its age reaches the ttl
ReadEarly(e, url, key, cached) ==
    IF ~cached.found \/ cached.v.tag # "entry" THEN Miss(e)
    ELSE IF e.now - cached.v.timestamp >= e.persistentTtl
    THEN Miss([e EXCEPT !.storage = MapDelete(@, key)])
    ELSE IF cached.v.url # url THEN Miss(e)
    ELSE [e |-> e, hit |-> TRUE, data |-> cached.v.data]

\* A read that trusts the key: it does not compare the entry's url
ReadAnyUrl(e, url, key, cached) ==
    IF ~cached.found \/ cached.v.tag # "entry" THEN Miss(e)
    ELSE IF e.now - cached.v.timestamp > e.persistentTtl
    THEN Miss([e EXCEPT !.storage = MapDelete(@, key)])
    ELSE [e |-> e, hit |-> TRUE, data |-> cached.v.data]

\* A read that takes whatever item it finds under the key for an entry
ReadUnchecked(e, url, key, cached) ==
    IF ~cached.found THEN Miss(e)
    ELSE IF cached.v.tag # "entry"
    THEN [e |-> e, hit |-> TRUE, data |-> Body(FALSE, << >>)]
    ELSE IF e.now - cached.v.timestamp > e.persistentTtl
    THEN Miss([e EXCEPT !.storage = MapDelete(@, key)])
    ELSE IF cached.v.url # url THEN Miss(e)
    ELSE [e |-> e, hit |-> TRUE, data |-> cached.v.data]

\* getFromPersistentCache once storage.getItem(key) gave cached
Read(e, url, key, cached) ==
    IF ~cached.found \/ cached.v.tag # "entry" THEN Miss(e)
    ELSE IF e.now - cached.v.timestamp > e.persistentTtl
    THEN Miss([e EXCEPT !.storage = MapDelete(@, key)])
    ELSE IF cached.v.url # url THEN Miss(e)
    ELSE [e |-> e, hit |-> TRUE, data |-> cached.v.data]

\* getFromPersistentCache(url): [e, hit, data]
getFromPersistentCache(e, url) ==
    IF ~e.hostStorage THEN Miss(e)
    ELSE Read(e, url, StorageKey(url), MapGet(e.storage, StorageKey(url)))

RECURSIVE Collect(_, _, _, _)
\* The loop of cleanupPersistentCache from index i on (the first index is 1):
\* an item it removes moves the later ones down one index
Collect(e, store, i, entries) ==
    IF i > Len(store) THEN [store |-> store, entries |-> entries]
    ELSE IF ~StartsWith(store[i].k, PREFIX) THEN Collect(e, store, i + 1, entries)
    ELSE IF \/ store[i].v.tag = "text"
            \/ /\ store[i].v.tag = "entry"
               /\ e.now - store[i].v.timestamp > e.persistentTtl
    THEN Collect(e, MapDelete(store, store[i].k), i + 1, entries)
    ELSE Collect(e, store, i + 1,
                 Append(entries, [key |-> store[i].k,
                                  timestamp |-> store[i].v.timestamp,
                                  dated |-> store[i].v.tag = "entry"]))

\* a.timestamp - b.timestamp <= 0, or the difference is NaN (a timestamp is
\* undefined), which sort takes for +0
NotAfter(a, b) == ~a.dated \/ ~b.dated \/ a.timestamp <= b.timestamp

\* sorted with x put after the entries that are not younger than it.  With
\* an undefined timestamp among them the comparisons are not consistent and
\* the order is the engine's; no specification here sorts such entries.
Inserted(sorted, x) ==
    LET n == Cardinality({ i \in 1..Len(sorted) : NotAfter(sorted[i], x) })
    IN SubSeq(sorted, 1, n) \o << x >> \o SubSeq(sorted, n + 1, Len(sorted))

RECURSIVE SortByTimestamp(_)
\* entries.sort((a, b) => a.timestamp - b.timestamp), a stable sort
SortByTimestamp(entries) ==
    IF entries = << >> THEN << >>
    ELSE Inserted(SortByTimestamp(SubSeq(entries, 1, Len(entries) - 1)),
                  entries[Len(entries)])

RECURSIVE RemoveOldest(_, _, _)
\* The loop that removes the first toDelete entries of sorted
RemoveOldest(store, sorted, toDelete) ==
    IF toDelete = 0 THEN store
    ELSE RemoveOldest(MapDelete(store, Head(sorted).key), Tail(sorted), toDelete - 1)

\* cleanupPersistentCache after its first loop, which gave got
Trimmed(e, got) ==
    IF Len(got.entries) > e.persistentMaxEntries
    THEN RemoveOldest(got.store, SortByTimestamp(got.entries),
                      Len(got.entries) - e.persistentMaxEntries)
    ELSE got.store

\* cleanupPersistentCache()
cleanupPersistentCache(e) ==
    IF ~e.hostStorage THEN e
    ELSE [e EXCEPT !.storage = Trimmed(e, Collect(e, e.storage, 1, << >>))]

\* storage.setItem(key, JSON.stringify(entry)) when it does not throw
Written(e, url, data) ==
    [e EXCEPT !.storage = MapSet(@, StorageKey(url), Entry(url, e.now, data))]

\* What the host's Storage does with the setItem calls of one save: it takes
\* the first, or throws at the first and takes the second, or throws at both
Quotas == { "ok", "retry", "fail" }

\* A save that gives up at the first setItem that throws
saveWithoutRetry(e, url, data, quota) ==
    IF ~e.hostStorage THEN e
    ELSE IF quota = "ok" THEN cleanupPersistentCache(Written(e, url, data))
    ELSE cleanupPersistentCache(e)

\* saveToPersistentCache(url, data), data as JSON.stringify writes it
saveToPersistentCache(e, url, data, quota) ==
    IF ~e.hostStorage THEN e
    ELSE CASE quota = "ok" -> cleanupPersistentCache(Written(e, url, data))
           [] quota = "retry" -> Written(cleanupPersistentCache(e), url, data)
           [] quota = "fail" -> cleanupPersistentCache(e)

\* storage without the items whose key starts with the prefix
WithoutPrefixed(store) ==
    SelectSeq(store, LAMBDA item : ~StartsWith(item.k, PREFIX))

\* clearPersistentCache()
clearPersistentCache(e) ==
    IF ~e.hostStorage THEN e
    ELSE [e EXCEPT !.storage = WithoutPrefixed(@), !.loadedUrls = << >>]

\* A call that goes to the network without the durable read
DurableReadSkipped(e, url) == Miss(e)

\* `if (cachedData)`: an entry.data that is undefined is no hit
Taken(read) == IF read.hit /\ read.data = NoData THEN Miss(read.e) ELSE read

\* loadTranslationsAsync, step 2: the durable read, if persistence is on
DurableRead(e, url) ==
    IF e.persistentEnabled THEN Taken(getFromPersistentCache(e, url)) ELSE Miss(e)

\* loadTranslationsAsync on a durable hit: the parsed data goes into the
\* in-process map and is merged
Revived(e, locale, url, data) ==
    loadTranslations([e EXCEPT !.heap = Alloc(e.heap, data.tree).h,
                               !.loadedUrls = (url :> (Len(e.heap) + 1)) @@ @,
                               !.tier = "durable"],
                     locale, Len(e.heap) + 1)

\* loadTranslationsAsync, step 5, for the object that response.json() built
Saved(e, url, data, array, quota) ==
    IF e.persistentEnabled
    THEN saveToPersistentCache(e, url, Body(array, TreeOf(e.heap, data)), quota)
    ELSE e

\* loadTranslationsAsync from `const data = await response.json()` on, tree
\* what the response body says
Fetched(e, locale, url, tree, array, quota) ==
    loadTranslations(
        Saved([e EXCEPT !.heap = Alloc(e.heap, tree).h,
                        !.loadedUrls = (url :> (Len(e.heap) + 1)) @@ @,
                        !.tier = "network"],
              url, Len(e.heap) + 1, array, quota),
        locale, Len(e.heap) + 1)

\* The six characters of the message before the status, each written as its
\* code point
FAILED == << "U+52A0", "U+8F7D", "U+7FFB", "U+8BD1", "U+5931", "U+8D25" >>

\* The message of the Error thrown for a response that is not ok
LoadError(response) ==
    << "[", "I", "1", "8", "n", "]", " " >> \o FAILED \o << ":", " " >>
        \o Decimal(response.status) \o << " " >> \o response.statusText

---------------------------------------------------------------------------
(* The engine as one record, and the record of a call *)

\* The engine's fields, with the traces a call leaves outside the engine:
\* calls (the listener invocations), events (the host events dispatched),
\* errors (the console.error reports), thrown (an exception is propagating).
This ==
    [currentLocale |-> currentLocale, defaultLocale |-> defaultLocale,
     localesArray |-> localesArray, translations |-> translations,
     heap |-> heap, fallbackBehavior |-> fallbackBehavior,
     escapeHtmlEnabled |-> escapeHtmlEnabled, cacheEnabled |-> cacheEnabled,
     cacheMaxSize |-> cacheMaxSize, translationCache |-> translationCache,
     keyCache |-> keyCache, callbacks |-> callbacks, loadedUrls |-> loadedUrls,
     persistentEnabled |-> persistentEnabled,
     persistentMaxEntries |-> persistentMaxEntries,
     persistentTtl |-> persistentTtl, hostStorage |-> hostStorage,
     storage |-> storage, now |-> now, hostDispatch |-> hostDispatch,
     calls |-> << >>, events |-> << >>, errors |-> 0, thrown |-> FALSE,
     tier |-> ""]

Options ==
    << defaultLocale, localesArray, fallbackBehavior, escapeHtmlEnabled,
       cacheEnabled, cacheMaxSize, persistentEnabled, persistentMaxEntries,
       persistentTtl, hostStorage, hostDispatch >>

\* The references an object holds
Refs(obj) == { obj[j].v.o : j \in { i \in 1..Len(obj) : obj[i].v.tag = "object" } }

RECURSIVE Reach(_, _)
\* The objects reachable from those of seen
Reach(h, seen) ==
    LET more == seen \cup UNION { Refs(h[i]) : i \in seen } IN
    IF more = seen THEN seen ELSE Reach(h, more)

\* The engine e once the objects that nothing refers to any more are
\* collected: the objects kept are renumbered in their order, which no
\* operation can observe.
Collected(e) ==
    LET roots == { e.translations[l] : l \in DOMAIN e.translations }
                 \cup { e.loadedUrls[u] : u \in DOMAIN e.loadedUrls }
        live == Reach(e.heap, roots)
        Rank(i) == Cardinality({ j \in live : j <= i })
        Old(n) == CHOOSE i \in live : Rank(i) = n
        Moved(v) == IF v.tag = "object" THEN ObjectValue(Rank(v.o)) ELSE v
    IN [e EXCEPT
          !.heap = [n \in 1..Cardinality(live) |->
                      [j \in 1..Len(e.heap[Old(n)]) |->
                          [k |-> e.heap[Old(n)][j].k,
                           v |-> Moved(e.heap[Old(n)][j].v)]]],
          !.translations = [l \in DOMAIN e.translations |-> Rank(e.translations[l])],
          !.loadedUrls = [u \in DOMAIN e.loadedUrls |-> Rank(e.loadedUrls[u])]]

\* The engine's fields become those of e.  No iteration over the callback Set
\* outlives a call, so the removed slots are dropped.
Becomes(e) ==
    LET kept == Collected(e) IN
    /\ currentLocale' = kept.currentLocale
    /\ translations' = kept.translations
    /\ heap' = kept.heap
    /\ translationCache' = kept.translationCache
    /\ keyCache' = kept.keyCache
    /\ callbacks' = SetEntries(kept.callbacks)
    /\ loadedUrls' = kept.loadedUrls
    /\ storage' = kept.storage
    /\ UNCHANGED << Options, now >>

NoArgs == [key |-> << >>, params |-> NoParams, locale |-> << >>, url |-> << >>,
           fn |-> "", data |-> << >>, array |-> FALSE, n |-> 0, quota |-> "",
           response |-> [status |-> 200, statusText |-> << "O", "K" >>]]

\* The record of a call: the operation, its arguments, the string (ret) or
\* boolean (ok) it returned, and the traces it left (tier: where a
\* loadTranslationsAsync call took its bundle from).
Call(op, args, e, ret, ok) ==
    [op |-> op, args |-> args, ret |-> ret, ok |-> ok, thrown |-> e.thrown,
     calls |-> e.calls, events |-> e.events, errors |-> e.errors,
     tier |-> e.tier]

---------------------------------------------------------------------------
(* Bounds *)

\* The most loadTranslationsAsync calls suspended at once.
MaxPending == 1
\* The most disposers a caller holds.
MaxDisposers == 2
\* The latest time the clock reaches.
MaxNow == 2
\* The most loadTranslationsAsync calls suspended at once where calls overlap
MaxOverlap == 2

---------------------------------------------------------------------------
(* Operations *)

\* A call that leaves the engine as e and is recorded as call
Does(e, call) ==
    /\ Becomes(e)
    /\ last' = call

\* A call of operation op that gives out = [e, ret], ret a string
Gives(op, args, out) == Does(out.e, Call(op, args, out.e, out.ret, TRUE))

\* A call of operation op that gives out = [e, ret], ret a boolean
Answers(op, args, out) == Does(out.e, Call(op, args, out.e, << >>, out.ret))

\* A call of operation op that returns nothing and leaves the engine as e
Done(op, args, e) == Does(e, Call(op, args, e, << >>, TRUE))

\* i18n.t(key, params)
T(key, params) ==
    /\ Gives("t", [NoArgs EXCEPT !.key = key, !.params = params],
             t(This, key, params))
    /\ UNCHANGED << pending, disposers >>

\* i18n.has(key)
Has(key) ==
    /\ Answers("has", [NoArgs EXCEPT !.key = key], has(This, key))
    /\ UNCHANGED << pending, disposers >>

\* i18n.setLocale(locale)
SetLocale(locale) ==
    /\ Answers("setLocale", [NoArgs EXCEPT !.locale = locale],
               setLocale(This, locale))
    /\ UNCHANGED << pending, disposers >>

\* The engine with the object literal data evaluated, and the call of
\* loadTranslations(locale, data) on it
Loaded(e, locale, data) ==
    loadTranslations([e EXCEPT !.heap = Alloc(e.heap, data).h],
                     locale, Len(e.heap) + 1)

\* i18n.loadTranslations(locale, data), data an object literal
LoadTranslations(locale, data) ==
    /\ Done("loadTranslations", [NoArgs EXCEPT !.locale = locale, !.data = data],
            Loaded(This, locale, data))
    /\ UNCHANGED << pending, disposers >>

\* loadTranslationsAsync(locale, url) after its miss in the in-process map,
\* read what the durable read gave: on a hit it merges and returns, on a
\* miss it suspends at `await fetch(url)` (at most `most` calls at once)
AfterRead(locale, url, read, most) ==
    IF read.hit
    THEN /\ Done("loadTranslationsAsync",
                 [NoArgs EXCEPT !.locale = locale, !.url = url],
                 Revived(read.e, locale, url, read.data))
         /\ UNCHANGED << pending, disposers >>
    ELSE /\ Len(pending) < most
         /\ pending' = Append(pending, [locale |-> locale, url |-> url])
         /\ Done("fetch", [NoArgs EXCEPT !.locale = locale, !.url = url], read.e)
         /\ UNCHANGED disposers

\* A call that is not made while a call for the same URL is suspended
CalledOnce(locale, url, most) ==
    IF url \in DOMAIN loadedUrls \/ \E i \in 1..Len(pending) : pending[i].url = url
    THEN /\ Done("loadTranslationsAsync",
                 [NoArgs EXCEPT !.locale = locale, !.url = url], This)
         /\ UNCHANGED << pending, disposers >>
    ELSE AfterRead(locale, url, DurableRead(This, url), most)

\* i18n.loadTranslationsAsync(locale, url) up to its return or its suspension
\* at `await fetch(url)`
Called(locale, url, most) ==
    IF url \in DOMAIN loadedUrls
    THEN /\ Done("loadTranslationsAsync",
                 [NoArgs EXCEPT !.locale = locale, !.url = url],
                 loadTranslations([This EXCEPT !.tier = "memory"], locale,
                                  loadedUrls[url]))
         /\ UNCHANGED << pending, disposers >>
    ELSE AfterRead(locale, url, DurableRead(This, url), most)

\* The call where at most MaxPending calls are suspended at once
LoadTranslationsAsync(locale, url) == Called(locale, url, MaxPending)

\* The call where up to MaxOverlap calls are suspended at once
LoadTranslationsAsyncOverlapping(locale, url) == Called(locale, url, MaxOverlap)

\* The suspended calls without the i-th
Resumed(i) ==
    [j \in 1..(Len(pending) - 1) |-> IF j < i THEN pending[j] ELSE pending[j + 1]]

\* The responses that are not ok
NotOk ==
    { [status |-> 404, statusText |-> << "N", "o", "t", " ", "F", "o", "u", "n", "d" >>],
      [status |-> 503, statusText |-> << >>] }

\* A failure that also empties the result cache
ThrownCleared(i, e, response) ==
    Does(clearCache(e),
         Call("loadTranslationsAsync",
              [NoArgs EXCEPT !.locale = pending[i].locale, !.url = pending[i].url,
                             !.response = response],
              e, LoadError(response), FALSE))

\* The i-th suspended call throws the Error for response
Thrown(i, e, response) ==
    Does(e, Call("loadTranslationsAsync",
                 [NoArgs EXCEPT !.locale = pending[i].locale, !.url = pending[i].url,
                                !.response = response],
                 e, LoadError(response), FALSE))

\* The rest of the i-th suspended loadTranslationsAsync call, once the fetch
\* has answered with a status that is not ok: it throws
FetchFails(i) ==
    /\ i \in 1..Len(pending)
    /\ pending' = Resumed(i)
    /\ \E response \in NotOk :
          Thrown(i, [This EXCEPT !.thrown = TRUE], response)
    /\ UNCHANGED disposers

\* The rest of the i-th suspended loadTranslationsAsync call, once the fetch
\* has answered ok and response.json() has parsed a body that says tree
Parsed(i, tree, array, quota) ==
    /\ i \in 1..Len(pending)
    /\ pending' = Resumed(i)
    /\ Done("loadTranslationsAsync",
            [NoArgs EXCEPT !.locale = pending[i].locale, !.url = pending[i].url,
                           !.data = tree, !.array = array, !.quota = quota],
            Fetched(This, pending[i].locale, pending[i].url, tree, array, quota))
    /\ UNCHANGED disposers

\* What the host's Storage may do with this call's save
QuotasNow == IF persistentEnabled /\ hostStorage THEN Quotas ELSE { "ok" }

\* The fetch of the i-th suspended call answers ok with the object data
FetchSucceeds(i, data) ==
    \E quota \in QuotasNow : Parsed(i, data, FALSE, quota)

\* An array as an object literal: its indices are its keys
ArrayOf(items) == [i \in 1..Len(items) |-> Leaf(Decimal(i - 1), items[i])]

\* The fetch of the i-th suspended call answers ok with the array items
FetchSucceedsArray(i, items) ==
    \E quota \in QuotasNow : Parsed(i, ArrayOf(items), TRUE, quota)

\* Time passes
Tick ==
    /\ now < MaxNow
    /\ now' = now + 1
    /\ last' = Call("tick", NoArgs, This, << >>, TRUE)
    /\ UNCHANGED << currentLocale, translations, heap, translationCache, keyCache,
                    callbacks, loadedUrls, storage, Options, pending, disposers >>

\* Another script of the page sets the item of key in the Storage
HostSets(key, item) ==
    /\ hostStorage
    /\ storage' = MapSet(storage, key, item)
    /\ last' = Call("setItem", [NoArgs EXCEPT !.key = key], This, << >>, TRUE)
    /\ UNCHANGED << currentLocale, translations, heap, translationCache, keyCache,
                    callbacks, loadedUrls, now, Options, pending, disposers >>

\* i18n.clearPersistentCache()
ClearPersistentCache ==
    /\ Done("clearPersistentCache", NoArgs, clearPersistentCache(This))
    /\ UNCHANGED << pending, disposers >>

\* i18n.clearCache()
ClearCache ==
    /\ Done("clearCache", NoArgs, clearCache(This))
    /\ UNCHANGED << pending, disposers >>

\* i18n.onChange(callback); the caller keeps the disposer it returns
OnChange(callback) ==
    /\ Len(disposers) < MaxDisposers
    /\ Done("onChange", [NoArgs EXCEPT !.fn = callback], onChange(This, callback))
    /\ disposers' = Append(disposers, [fn |-> callback, called |-> FALSE])
    /\ UNCHANGED pending

\* The caller calls the n-th disposer it holds
Dispose(n) ==
    /\ n \in 1..Len(disposers)
    /\ Done("dispose", [NoArgs EXCEPT !.fn = disposers[n].fn, !.n = n],
            dispose(This, disposers[n].fn))
    /\ disposers' = [disposers EXCEPT ![n].called = TRUE]
    /\ UNCHANGED pending

\* i18n.removeAllListeners()
RemoveAllListeners ==
    /\ Done("removeAllListeners", NoArgs, removeAllListeners(This))
    /\ UNCHANGED << pending, disposers >>

---------------------------------------------------------------------------
(* Construction *)

ZH == << "z", "h" >>
EN == << "e", "n" >>
FR == << "f", "r" >>

RECURSIVE AllocTables(_, _, _)
\* options.translations, an object literal locale -> table, evaluated:
\* [h, translations]
AllocTables(h, tables, lits) ==
    IF lits = << >> THEN [h |-> h, translations |-> tables]
    ELSE LET made == Alloc(h, Head(lits).kids) IN
         AllocTables(made.h, (Head(lits).k :> made.id) @@ tables, Tail(lits))

\* The host when the page's script starts: the functions it offers, its
\* Storage (if it has one) and its clock
HostStarts(withStorage) ==
    /\ hostDispatch = TRUE
    /\ hostStorage = withStorage
    /\ storage = << >>
    /\ now = 0

\* lang.split("-")[0]
Primary(lang) ==
    IF IndexOf(lang, "-") = 0 THEN lang ELSE SubSeq(lang, 1, IndexOf(lang, "-") - 1)

\* No locale detected: null
NoLocale == [found |-> FALSE, v |-> << >>]

\* The first locale of the registry that is primary or starts with primary-
FirstOfPrimary(locales, primary) ==
    LET fits == { i \in 1..Len(locales) :
                     \/ StartsWith(locales[i], primary \o << "-" >>)
                     \/ locales[i] = primary }
    IN IF fits = { } THEN NoLocale
       ELSE [found |-> TRUE,
             v |-> locales[CHOOSE i \in fits : \A j \in fits : i <= j]]

\* detectLocale() on a host that is not Deno and whose navigator has the
\* language `language` and no list of languages (<< >>: no navigator, or
\* none with a language)
detectLocale(locales, language) ==
    IF language = << >> THEN NoLocale
    ELSE IF SetHas(locales, language) THEN [found |-> TRUE, v |-> language]
    ELSE FirstOfPrimary(locales, Primary(language))

\* new I18n(options) up to the choice of the current locale, which is current
Built(options, current) ==
    LET made == AllocTables(<< >>, << >>, options.translations) IN
    /\ defaultLocale = options.defaultLocale
    /\ localesArray = options.locales
    /\ translations = made.translations
    /\ heap = made.h
    /\ fallbackBehavior = options.fallbackBehavior
    /\ escapeHtmlEnabled = options.escapeHtml
    /\ cacheEnabled = options.enableCache
    /\ cacheMaxSize = options.cacheMaxSize
    /\ persistentEnabled = options.persistentCache
    /\ persistentMaxEntries = options.maxEntries
    /\ persistentTtl = options.ttl
    /\ currentLocale = current
    /\ translationCache = << >>
    /\ keyCache = << >>
    /\ callbacks = << >>
    /\ loadedUrls = << >>
    /\ pending = << >>
    /\ disposers = << >>
    /\ last = Call("new", NoArgs, This, << >>, TRUE)

\* new I18n(options), with autoDetect off
Constructed(options) == Built(options, options.defaultLocale)

\* new I18n(options) with autoDetect on, on a host whose navigator.language
\* is language
ConstructedDetecting(options, language) ==
    Built(options,
          IF /\ detectLocale(options.locales, language).found
             /\ SetHas(options.locales, detectLocale(options.locales, language).v)
          THEN detectLocale(options.locales, language).v
          ELSE options.defaultLocale)

\* The engine that new I18n(options) builds with the tables made
Restarted(e, made) ==
    [e EXCEPT !.currentLocale = e.defaultLocale, !.heap = made.h,
              !.translations = made.translations, !.translationCache = << >>,
              !.keyCache = << >>, !.callbacks = << >>, !.loadedUrls = << >>]

\* The page is loaded again: its script builds the engine with the same
\* options; the host's Storage and clock go on
Reload(tables) ==
    /\ Done("new", NoArgs, Restarted(This, AllocTables(<< >>, << >>, tables)))
    /\ pending' = << >>
    /\ disposers' = << >>

\* The constructor's defaults
DefaultOptions ==
    [defaultLocale |-> ZH, locales |-> << ZH, EN >>, translations |-> << >>,
     fallbackBehavior |-> "key", escapeHtml |-> FALSE, enableCache |-> FALSE,
     cacheMaxSize |-> 500, persistentCache |-> FALSE, maxEntries |-> 10,
     ttl |-> 7 * 24 * 60 * 60 * 1000]

---------------------------------------------------------------------------
(* The result cache under calls and loads *)

\* Keys: "g", "w" and the key  w:{"x":1}, which no table holds
KeyG == << "g" >>
KeyW == << "w" >>
KeyWX1 == << "w", ":", "{", "\"", "x", "\"", ":", "1", "}" >>

X1 == Params(<< [k |-> << "x" >>, v |-> Num(1)] >>)

CacheTables ==
    << Node(ZH, << Leaf(KeyG, << "Z" >>),
                   Leaf(KeyW, << "W", "{", "x", "}" >>) >>),
       Node(EN, << Leaf(KeyG, << "E" >>) >>) >>

CacheKeys == { KeyG, KeyW, KeyWX1 }
CacheParams == { NoParams, X1 }
CacheLoads == { << Leaf(KeyG, << "N" >>) >> }
Urls == { << "u", "1" >> }

Init ==
    /\ HostStarts(FALSE)
    /\ \E size \in 1..2 :
          Constructed([DefaultOptions EXCEPT !.translations = CacheTables,
                                             !.enableCache = TRUE,
                                             !.cacheMaxSize = size])

Next ==
    \/ \E key \in CacheKeys, params \in CacheParams : T(key, params)
    \/ \E locale \in { ZH, EN, FR } : SetLocale(locale)
    \/ \E locale \in { ZH, EN }, data \in CacheLoads : LoadTranslations(locale, data)
    \/ \E locale \in { ZH, EN }, url \in Urls : LoadTranslationsAsync(locale, url)
    \/ \E i \in 1..MaxPending : FetchFails(i)
    \/ \E i \in 1..MaxPending, data \in CacheLoads : FetchSucceeds(i, data)
    \/ ClearCache

Spec == Init /\ [][Next]_vars

---------------------------------------------------------------------------
(* Resolution with the result cache off *)

\* Keys: "m" holds the empty string, "n.h" is a nested key, "q" is in no table
KeyM == << "m" >>
KeyN == << "n" >>
KeyH == << "h" >>
KeyNH == << "n", ".", "h" >>
KeyQ == << "q" >>

ResolveTables ==
    << Node(ZH, << Leaf(KeyW, << "W", "{", "x", "}" >>),
                   Leaf(KeyM, << >>),
                   Node(KeyN, << Leaf(KeyH, << "H" >>) >>) >>),
       Node(EN, << Leaf(KeyG, << "E" >>) >>) >>

ResolveKeys == { KeyG, KeyW, KeyM, KeyNH, KeyQ }

InitResolve ==
    /\ HostStarts(FALSE)
    /\ \E policy \in { "key", "empty", "default" } :
          Constructed([DefaultOptions EXCEPT !.translations = ResolveTables,
                                             !.locales = << ZH, EN, FR >>,
                                             !.fallbackBehavior = policy])

NextResolve ==
    \/ \E key \in ResolveKeys, params \in CacheParams : T(key, params)
    \/ \E key \in ResolveKeys \cup { KeyN } : Has(key)
    \/ \E locale \in { ZH, EN, FR } : SetLocale(locale)

SpecResolve == InitResolve /\ [][NextResolve]_vars

---------------------------------------------------------------------------
(* Loading and merging *)

\* The data loaded: { constructor: "c", m: "M" }, { n: { constructor: "x" } }
\* and { n: { h: "K" } }
MergeLoads ==
    { << Leaf(CONSTRUCTOR, << "c" >>), Leaf(KeyM, << "M" >>) >>,
      << Node(KeyN, << Leaf(CONSTRUCTOR, << "x" >>) >>) >>,
      << Node(KeyN, << Leaf(KeyH, << "K" >>) >>) >> }

InitMerge ==
    /\ HostStarts(FALSE)
    /\ Constructed([DefaultOptions EXCEPT !.translations = ResolveTables])

NextMerge ==
    \/ \E locale \in { ZH, EN }, data \in MergeLoads : LoadTranslations(locale, data)
    \/ \E locale \in { ZH, EN }, url \in Urls : LoadTranslationsAsync(locale, url)
    \/ \E i \in 1..MaxPending : FetchFails(i)
    \/ \E i \in 1..MaxPending, data \in MergeLoads : FetchSucceeds(i, data)
    \/ T(KeyNH, NoParams)

SpecMerge == InitMerge /\ [][NextMerge]_vars

---------------------------------------------------------------------------
(* Locale switching with listeners *)

\* The default locale is "zh", or "fr", which is not in the registry
InitListeners ==
    /\ HostStarts(FALSE)
    /\ \E default \in { ZH, FR } :
          Constructed([DefaultOptions EXCEPT !.defaultLocale = default,
                                             !.translations = CacheTables,
                                             !.enableCache = TRUE])

NextListeners ==
    \/ \E locale \in { ZH, EN, FR } : SetLocale(locale)
    \/ \E callback \in Listeners : OnChange(callback)
    \/ \E n \in 1..MaxDisposers : Dispose(n)
    \/ RemoveAllListeners

SpecListeners == InitListeners /\ [][NextListeners]_vars

---------------------------------------------------------------------------
(* The result cache: its bound, its eviction and its invalidation *)

\* Params { x: NaN } and { x: Infinity }
XNaN == Params(<< [k |-> << "x" >>, v |-> NaN] >>)
XInfinity == Params(<< [k |-> << "x" >>, v |-> Infinity] >>)

BoundKeys == { KeyG, KeyW }
BoundParams == { NoParams, XNaN, XInfinity }
BoundListeners == { "a", "s" }

\* cacheMaxSize is 0, 1 or 2
InitBound ==
    /\ HostStarts(FALSE)
    /\ \E size \in 0..2 :
          Constructed([DefaultOptions EXCEPT !.translations = CacheTables,
                                             !.enableCache = TRUE,
                                             !.cacheMaxSize = size])

NextBound ==
    \/ \E key \in BoundKeys, params \in BoundParams : T(key, params)
    \/ Has(KeyG)
    \/ \E locale \in { ZH, EN, FR } : SetLocale(locale)
    \/ \E data \in CacheLoads : LoadTranslations(EN, data)
    \/ ClearCache
    \/ \E callback \in BoundListeners : OnChange(callback)
    \/ RemoveAllListeners

SpecBound == InitBound /\ [][NextBound]_vars

---------------------------------------------------------------------------
(* Bundles through the in-process map and the durable cache *)

\* Two URLs that hashUrl gives the same hash, "1mo"
UrlAa == << "A", "a" >>
UrlBB == << "B", "B" >>
PersistUrls == { UrlAa, UrlBB }

\* The bundle { g: "N" } and the array ["a"]
PersistBundle == << Leaf(KeyG, << "N" >>) >>
PersistItems == << << "a" >> >>

\* Persistence and the result cache are on, the ttl is 1; the host has a
\* Storage or has none
InitPersist ==
    /\ \E withStorage \in BOOLEAN : HostStarts(withStorage)
    /\ Constructed([DefaultOptions EXCEPT !.persistentCache = TRUE,
                                          !.enableCache = TRUE,
                                          !.ttl = 1])

NextPersist ==
    \/ \E url \in PersistUrls : LoadTranslationsAsync(ZH, url)
    \/ T(KeyG, NoParams)
    \/ \E i \in 1..MaxPending : FetchFails(i)
    \/ \E i \in 1..MaxPending : FetchSucceeds(i, PersistBundle)
    \/ \E i \in 1..MaxPending : FetchSucceedsArray(i, PersistItems)
    \/ Tick
    \/ Reload(<< >>)

SpecPersist == InitPersist /\ [][NextPersist]_vars

---------------------------------------------------------------------------
(* Properties *)

\* The engine with its result cache off.  No operation but t reads the
\* result cache, so an engine built with enableCache = false has, after the
\* same calls, the tables and the current locale of this one.
Uncached == [This EXCEPT !.cacheEnabled = FALSE, !.translationCache = << >>]

\* What key's dotted path leads to in the table of locale
Stored(locale, key) ==
    IF locale \in DOMAIN translations
    THEN Walk(heap, ObjectValue(translations[locale]), Split(key))
    ELSE Undefined

\* The listener functions a call invoked, in the order of their calls
Invoked(calls) == [i \in 1..Len(calls) |-> calls[i].fn]

\* C1. Cache transparency: every t(key, params) of an engine with the result
\* cache on returns the string that the engine with the cache off returns
\* after the same sequence of t, setLocale, loadTranslations,
\* loadTranslationsAsync and clearCache calls.
C1_CacheTransparent ==
    last.op = "t" => last.ret = t(Uncached, last.args.key, last.args.params).ret

\* C2. Identity round trip: when the current locale L is registered and key K
\* leads to a leaf string of L's table (the empty string included), t(K)
\* without params returns exactly that string.
C2_IdentityRoundTrip ==
    ( /\ last.op = "t"
      /\ ~last.args.params.given
      /\ SetHas(localesArray, currentLocale)
      /\ Stored(currentLocale, last.args.key).tag = "string" )
    => last.ret = Stored(currentLocale, last.args.key).s

\* C3. Default-locale fallback: when the current locale is not the default
\* one, K does not resolve in the current locale's table and leads to a leaf
\* string of the default locale's table, t(K, params) returns that string with
\* params interpolated, whatever fallbackBehavior is.
C3_DefaultFallback ==
    ( /\ last.op = "t"
      /\ currentLocale # defaultLocale
      /\ Stored(currentLocale, last.args.key) = Undefined
      /\ Stored(defaultLocale, last.args.key).tag = "string" )
    => last.ret = interpolate(This, Stored(defaultLocale, last.args.key).s,
                              last.args.params)

\* C4. Missing-key policy: when K resolves in neither the current nor the
\* default locale's table, t(K, params) does not throw and returns the empty
\* string under fallbackBehavior "empty" and K under "key" and "default".
C4_MissingKeyPolicy ==
    ( /\ last.op = "t"
      /\ Stored(currentLocale, last.args.key) = Undefined
      /\ Stored(defaultLocale, last.args.key) = Undefined )
    => /\ ~last.thrown
       /\ last.ret = IF fallbackBehavior = "empty" THEN << >> ELSE last.args.key

\* C5. setLocale(x) with x not in the registry returns false and changes
\* nothing: the current locale, the result cache and the tables stay as they
\* are, no listener is invoked and no host event is dispatched.
C5_UnregisteredRejected ==
    [][ ( /\ last'.op = "setLocale"
          /\ ~SetHas(localesArray, last'.args.locale) )
        => /\ ~last'.ok
           /\ ~last'.thrown
           /\ currentLocale' = currentLocale
           /\ translationCache' = translationCache
           /\ translations' = translations
           /\ heap' = heap
           /\ last'.calls = << >>
           /\ last'.events = << >> ]_vars

\* setLocale(x), x not in the registry, was called while listeners were
\* registered and the result cache held entries
C5_Witness ==
    /\ last.op = "setLocale"
    /\ ~SetHas(localesArray, last.args.locale)
    /\ ~last.ok
    /\ callbacks # << >>
    /\ translationCache # << >>

\* C6, as stated: setLocale(x) with x the current locale returns true in
\* every reachable state and changes nothing, the default locale in the
\* registry or not.
C6_SameLocaleAlwaysTrue ==
    [][ ( /\ last'.op = "setLocale"
          /\ last'.args.locale = currentLocale )
        => /\ last'.ok
           /\ currentLocale' = currentLocale
           /\ translationCache' = translationCache
           /\ last'.calls = << >> ]_vars

\* C6, amended: setLocale(x) with x the current locale changes nothing and
\* invokes no listener, however often it is repeated; it returns true when x
\* is in the registry and false when it is not (a default locale outside the
\* registry, before the first switch).
C6_SameLocaleNoOp ==
    [][ ( /\ last'.op = "setLocale"
          /\ last'.args.locale = currentLocale )
        => /\ last'.ok = SetHas(localesArray, currentLocale)
           /\ ~last'.thrown
           /\ currentLocale' = currentLocale
           /\ translationCache' = translationCache
           /\ last'.calls = << >>
           /\ last'.events = << >> ]_vars

\* setLocale(x), x the current locale and in the registry, returned true
\* without a notification while listeners were registered and the result
\* cache held entries
C6_Witness ==
    /\ last.op = "setLocale"
    /\ last.args.locale = currentLocale
    /\ last.ok
    /\ last.events = << >>
    /\ callbacks # << >>
    /\ translationCache # << >>

\* C7. A setLocale call that changes the current locale invokes every
\* listener registered at that moment exactly once, in registration order,
\* with the new locale as argument, after the current locale is updated and
\* the result cache cleared: the listener's getLocale() is the new locale, its
\* t() returns what the tables give for the new locale, and the cache it
\* finds holds no entry made under another locale.
C7_EachListenerOnceInOrder ==
    [][ ( /\ last'.op = "setLocale"
          /\ SetHas(localesArray, last'.args.locale)
          /\ last'.args.locale # currentLocale )
        => /\ Invoked(last'.calls) = callbacks
           /\ \A i \in 1..Len(last'.calls) :
                 /\ last'.calls[i].arg = last'.args.locale
                 /\ last'.calls[i].locale = last'.args.locale
                 /\ last'.calls[i].probe =
                       t([Uncached EXCEPT !.currentLocale = last'.args.locale],
                         ProbeKey, NoParams).ret
                 /\ \A j \in 1..Len(last'.calls[i].cache) :
                       SubSeq(last'.calls[i].cache[j].k, 1,
                              Len(last'.args.locale) + 1)
                          = last'.args.locale \o << ":" >> ]_vars

C9_DisposerRemovesOwnOnly ==
    [][ last'.op = "dispose"
        => /\ \A m \in 1..Len(disposers) :
                 ( /\ m # last'.args.n
                   /\ ~disposers[m].called
                   /\ SetHas(callbacks, disposers[m].fn) )
                 => SetHas(callbacks', disposers[m].fn)
           /\ ( \A m \in 1..Len(disposers) :
                   m # last'.args.n => disposers[m].fn # last'.args.fn )
              => ~SetHas(callbacks', last'.args.fn)
           /\ disposers[last'.args.n].called => callbacks' = callbacks ]_vars

\* C10. Dangerous-key invariant: no object of any locale's translation tree,
\* at any depth, has a key in DANGEROUS_KEYS.
C10_NoDangerousKey ==
    \A i \in Reach(heap, { translations[l] : l \in DOMAIN translations }) :
        \A j \in 1..Len(heap[i]) : heap[i][j].k \notin DANGEROUS_KEYS

\* The tree of locale in the tables, the empty tree when it has none
TreeOfLocale(h, tables, locale) ==
    IF locale \in DOMAIN tables THEN TreeOf(h, tables[locale]) ELSE << >>

RECURSIVE DeepMerge(_, _)
\* The deep merge of tree source into tree target: a dangerous key of source
\* is dropped, two structured nodes under one key are merged, any other
\* source value replaces or extends; the rest of target stays
DeepMerge(target, source) ==
    IF source = << >> THEN target
    ELSE LET p == Head(source)
             i == PropIndex(target, p.k)
         IN DeepMerge(
               IF p.k \in DANGEROUS_KEYS THEN target
               ELSE IF i = 0 THEN Append(target, p)
               ELSE IF ~p.leaf /\ ~target[i].leaf
               THEN [target EXCEPT ![i] = Node(p.k, DeepMerge(target[i].kids, p.kids))]
               ELSE [target EXCEPT ![i] = p],
               Tail(source))

\* C11. loadTranslations(L, data) leaves as L's tree exactly the deep merge of
\* data into the tree L had before (the empty tree if it had none): structured
\* nodes under one key are merged recursively, any other source value replaces
\* the existing one, and what data does not mention keeps its value.
C11_LoadIsDeepMerge ==
    [][ last'.op = "loadTranslations"
        => TreeOfLocale(heap', translations', last'.args.locale)
              = DeepMerge(TreeOfLocale(heap, translations, last'.args.locale),
                          last'.args.data) ]_vars

\* { n: { h: "K" } } was loaded into "zh": the node n was merged, its leaf h
\* replaced, and the key w, which the data does not mention, kept
C11_Witness ==
    /\ last.op = "loadTranslations"
    /\ last.args.locale = ZH
    /\ last.args.data = << Node(KeyN, << Leaf(KeyH, << "K" >>) >>) >>
    /\ Stored(ZH, KeyNH) = StringValue(<< "K" >>)
    /\ Stored(ZH, KeyW) = StringValue(<< "W", "{", "x", "}" >>)

\* C12: with the cache enabled the result cache never holds more than
\* cacheMaxSize entries, for every non-negative cacheMaxSize
C12_CacheBounded == cacheEnabled => Len(translationCache) <= cacheMaxSize

\* The cache key of the most recent call
LastCacheKey == getCacheKey(This, last.args.key, last.args.params)

\* C13: eviction is least-recently-used: an entry that has just served a hit
\* is not the one the next insertion evicts while another entry is cached
C13_HitSurvivesNextInsertion ==
    [][ ( /\ last.op = "t"
          /\ last'.op = "t"
          /\ Len(translationCache) > 1
          /\ MapGet(translationCache, LastCacheKey).found
          /\ last.ret = MapGet(translationCache, LastCacheKey).v )
        => MapGet(translationCache', LastCacheKey).found ]_vars

\* C14: a call with params returns the interpolation of the stored string
\* with its own params, so calls that differ in a param value never share a
\* cached result
C14_OwnParamsInterpolated ==
    ( /\ last.op = "t"
      /\ last.args.params.given
      /\ Stored(currentLocale, last.args.key).tag = "string"
      /\ Stored(currentLocale, last.args.key).s # << >> )
    => last.ret = interpolate(This, Stored(currentLocale, last.args.key).s, last.args.params)

\* Every entry of the cache but its first d is kept, in order, by the step
Kept(d) ==
    /\ Len(translationCache') >= Len(translationCache) - d
    /\ SubSeq(translationCache', 1, Len(translationCache) - d)
         = SubSeq(translationCache, 1 + d, Len(translationCache))

\* A step of t, has, onChange, a disposer, removeAllListeners or a setLocale
\* that does not change the locale removes at most the oldest entry, and
\* that only when t inserts into a full cache
OnlyEvicts ==
    \/ Kept(0)
    \/ /\ last'.op = "t"
       /\ Len(translationCache) >= cacheMaxSize
       /\ Len(translationCache') = Len(translationCache)
       /\ Kept(1)

\* The step is a setLocale that changed the current locale
LocaleChanged == last'.op = "setLocale" /\ last'.ok /\ last'.args.locale # currentLocale

\* The step is a clearCache or a loadTranslations with the cache enabled
Cleared == last'.op = "clearCache" \/ (last'.op = "loadTranslations" /\ cacheEnabled)

\* C15 (as stated): the result cache is empty immediately after every
\* locale-changing setLocale, loadTranslations and clearCache, and no other
\* operation removes an entry except eviction
C15_EmptyAfterInvalidation ==
    [][ IF LocaleChanged \/ Cleared THEN translationCache' = << >> ELSE OnlyEvicts ]_vars

\* C15 (amended): loadTranslations and clearCache leave the cache empty; a
\* locale-changing setLocale empties it before the first listener runs, so
\* it is empty on return unless a listener translated, and then it holds
\* only entries of the new locale
C15_InvalidatedWholesale ==
    [][ IF Cleared THEN translationCache' = << >>
        ELSE IF LocaleChanged
             THEN /\ last'.calls = << >> => translationCache' = << >>
                  /\ last'.calls # << >> => last'.calls[1].cache = << >>
                  /\ \A i \in 1..Len(translationCache') :
                        /\ Len(translationCache'[i].k) > Len(currentLocale')
                        /\ SubSeq(translationCache'[i].k, 1, Len(currentLocale') + 1)
                             = currentLocale' \o << ":" >>
             ELSE OnlyEvicts ]_vars

C15_Witness ==
    /\ last.op = "setLocale"
    /\ last.ok
    /\ last.calls # << >>
    /\ last.calls[1].cache = << >>
    /\ translationCache # << >>

RECURSIVE LeafAt(_, _)
\* The path keys from the tree ends at a leaf string
LeafAt(tree, keys) ==
    /\ keys # << >>
    /\ \E i \in 1..Len(tree) :
          /\ tree[i].k = Head(keys)
          /\ IF Tail(keys) = << >> THEN tree[i].leaf
             ELSE ~tree[i].leaf /\ LeafAt(tree[i].kids, Tail(keys))

\* C16: has(K) is true exactly when K resolves to a leaf string in the
\* current locale's own table: false when K is only in the default locale's
\* table, when the path ends at a structured node, and when the current
\* locale has no table
C16_HasIffOwnLeaf ==
    last.op = "has"
    => last.ok = ( /\ currentLocale \in DOMAIN translations
                   /\ LeafAt(TreeOfLocale(heap, translations, currentLocale),
                             Split(last.args.key)) )

\* has is false for a key that only the default locale's table holds
C16_Witness ==
    /\ last.op = "has"
    /\ last.args.key = KeyW
    /\ currentLocale = EN
    /\ Stored(defaultLocale, KeyW) # Undefined
    /\ ~last.ok

\* The durable cache holds a live entry of url: the host has a Storage and
\* the item under the key of url is an entry of this url that is not expired
DurableLive(url) ==
    /\ hostStorage
    /\ \E i \in 1..Len(storage) :
          /\ storage[i].k = StorageKey(url)
          /\ storage[i].v.tag = "entry"
          /\ storage[i].v.url = url
          /\ now - storage[i].v.timestamp <= persistentTtl

\* The data of the durable cache's entry of url
DurableData(url) == MapGet(storage, StorageKey(url)).v.data

\* The step merged tree into the table of the call's locale
MergedIn(tree) ==
    TreeOfLocale(heap', translations', last'.args.locale)
        = DeepMerge(TreeOfLocale(heap, translations, last'.args.locale), tree)

\* The step is a call of loadTranslationsAsync up to its return or its
\* suspension at the fetch (the rest of a suspended call takes it out of
\* pending)
Direct ==
    /\ last'.op \in { "fetch", "loadTranslationsAsync" }
    /\ Len(pending') >= Len(pending)

Failed == last'.op = "loadTranslationsAsync" /\ last'.thrown

\* text ends with suffix
EndsWith(text, suffix) ==
    /\ Len(text) >= Len(suffix)
    /\ SubSeq(text, Len(text) - Len(suffix) + 1, Len(text)) = suffix

\* The call fails with an Error whose message carries the status code and the
\* status text, and is taken out of the suspended calls: no fetch follows
FailsWithStatus ==
    /\ last'.args.response.status # 200
    /\ EndsWith(last'.ret, Decimal(last'.args.response.status) \o << " " >>
                              \o last'.args.response.statusText)
    /\ Len(pending') = Len(pending) - 1
    /\ \A j \in 1..Len(pending') : \E k \in 1..Len(pending) : pending'[j] = pending[k]

\* The step leaves the in-process map, the tables and the result cache as
\* they are
EngineUnchanged ==
    UNCHANGED << loadedUrls, translations, heap, translationCache, currentLocale >>

\* The item under the key of url is an entry that is expired
DurableExpired(url) ==
    /\ hostStorage
    /\ \E i \in 1..Len(storage) :
          /\ storage[i].k = StorageKey(url)
          /\ storage[i].v.tag = "entry"
          /\ now - storage[i].v.timestamp > persistentTtl

\* C18 (as stated): a loadTranslationsAsync(L, u) call whose fetch returns a
\* non-success status fails with an error carrying the status code and the
\* status text, is not retried, and leaves all state unchanged, durable
\* storage included, in its step up to the fetch and in its step after it
C18_FailedCallChangesNothing ==
    [][ /\ last'.op = "fetch" => EngineUnchanged /\ storage' = storage
        /\ Failed => FailsWithStatus /\ EngineUnchanged /\ storage' = storage ]_vars

\* C18 (amended): the same, except that the durable read before the fetch
\* deletes the entry under the key of u that it finds expired
C18_FailedCallLeavesState ==
    [][ /\ last'.op = "fetch"
           => /\ EngineUnchanged
              /\ storage' = IF persistentEnabled /\ DurableExpired(last'.args.url)
                            THEN MapDelete(storage, StorageKey(last'.args.url))
                            ELSE storage
        /\ Failed => FailsWithStatus /\ EngineUnchanged /\ storage' = storage ]_vars

\* A call has failed with 404 Not Found while the in-process map, the durable
\* cache and the result cache held something
C18_Witness ==
    /\ last.op = "loadTranslationsAsync"
    /\ last.thrown
    /\ last.args.response.status = 404
    /\ loadedUrls # << >>
    /\ storage # << >>
    /\ translationCache # << >>

\* C19: when the fetched body deserializes to a top-level value that is not
\* an object (here an array), loadTranslationsAsync fails with an error, and
\* the value is neither merged into the locale's table nor stored in the
\* in-process map or the durable cache
C19_NonObjectBodyRejected ==
    [][ (last'.op = "loadTranslationsAsync" /\ last'.args.array)
        => /\ last'.thrown
           /\ UNCHANGED << loadedUrls, storage, translations, heap >> ]_vars

\* The step is a loadTranslationsAsync call that makes the durable read of
\* its URL and finds an entry under the URL's key
DurableReadOfEntry ==
    /\ Direct
    /\ last'.args.url \notin DOMAIN loadedUrls
    /\ persistentEnabled
    /\ hostStorage
    /\ MapGet(storage, StorageKey(last'.args.url)).found
    /\ MapGet(storage, StorageKey(last'.args.url)).v.tag = "entry"

\* The age of the entry under the key of url
Age(url) == now - MapGet(storage, StorageKey(url)).v.timestamp

ReadsOutlived ==
    /\ Direct
    /\ persistentEnabled
    /\ DurableExpired(last'.args.url)
    /\ MapGet(storage, StorageKey(last'.args.url)).v.url = last'.args.url

\* C21: with persistence on, a loadTranslationsAsync(L, u) issued after the
\* age of the durable entry of u exceeds the ttl removes the entry and
\* fetches from the network instead of serving the cached bundle, also on
\* the instance that cached it
C21_OutlivedEntryRefetched ==
    [][ ReadsOutlived
        => /\ last'.op = "fetch"
           /\ storage' = MapDelete(storage, StorageKey(last'.args.url)) ]_vars

---------------------------------------------------------------------------
(* The durable cache with ttl = 0 *)

\* Persistence is on with ttl 0 and the host has a Storage
InitForever ==
    /\ HostStarts(TRUE)
    /\ Constructed([DefaultOptions EXCEPT !.persistentCache = TRUE, !.ttl = 0])

NextForever ==
    \/ \E url \in PersistUrls : LoadTranslationsAsync(ZH, url)
    \/ \E i \in 1..MaxPending : FetchSucceeds(i, PersistBundle)
    \/ Tick
    \/ Reload(<< >>)
    \/ ClearPersistentCache

SpecForever == InitForever /\ [][NextForever]_vars

\* C22: with ttl = 0 durable entries never expire: while the entries are
\* not more than maxEntries, no step other than clearPersistentCache takes
\* the item of a key out of the Storage, whatever the age of its entry
C22_ZeroTtlNeverExpires ==
    [][ (persistentTtl = 0 /\ last'.op # "clearPersistentCache"
                           /\ Len(storage) < persistentMaxEntries)
        => \A i \in 1..Len(storage) : MapGet(storage', storage[i].k).found ]_vars

---------------------------------------------------------------------------
(* C23 *)

\* The step is a loadTranslationsAsync call whose durable read finds, under
\* the key of its URL, the entry of another URL
ReadsCollision ==
    /\ DurableReadOfEntry
    /\ MapGet(storage, StorageKey(last'.args.url)).v.url # last'.args.url

\* C23: a durable read for u never returns the bundle stored for another URL
\* with the same hash: the call goes to the fetch with the engine as it was,
\* an unexpired entry of the other URL stays in place, and every durable hit
\* is a hit on an entry whose url is the URL asked for
C23_CollisionSafe ==
    [][ /\ ReadsCollision
           => /\ last'.op = "fetch"
              /\ EngineUnchanged
              /\ Age(last'.args.url) <= persistentTtl => storage' = storage
        /\ (Direct /\ last'.tier = "durable")
           => /\ MapGet(storage, StorageKey(last'.args.url)).v.url = last'.args.url
              /\ MergedIn(DurableData(last'.args.url).tree) ]_vars

\* A call for "BB" has gone to the fetch while the Storage holds, under the
\* key of "BB", the unexpired entry of "Aa"
C23_Witness ==
    /\ last.op = "fetch"
    /\ last.args.url = UrlBB
    /\ persistentEnabled
    /\ MapGet(storage, StorageKey(UrlBB)).found
    /\ MapGet(storage, StorageKey(UrlBB)).v.url = UrlAa
    /\ Age(UrlBB) <= persistentTtl

---------------------------------------------------------------------------
(* The durable cache at its count limit *)

\* Three URLs with three hashes: "2u4", "2u5" and "1mo"
UrlU1 == << "u", "1" >>
UrlU2 == << "u", "2" >>
EvictUrls == { UrlU1, UrlU2, UrlAa }

\* Persistence is on with maxEntries 2 and ttl 1, and the host has a Storage
InitEvict ==
    /\ HostStarts(TRUE)
    /\ Constructed([DefaultOptions EXCEPT !.persistentCache = TRUE,
                                          !.maxEntries = 2, !.ttl = 1])

NextEvict ==
    \/ \E url \in EvictUrls : LoadTranslationsAsync(ZH, url)
    \/ \E i \in 1..MaxPending : FetchSucceeds(i, PersistBundle)
    \/ Tick
    \/ Reload(<< >>)

SpecEvict == InitEvict /\ [][NextEvict]_vars

\* The items of store whose key starts with the prefix
Prefixed(store) == SelectSeq(store, LAMBDA item : StartsWith(item.k, PREFIX))

\* The step is the rest of a loadTranslationsAsync call after a fetch that
\* answered ok, and it wrote the bundle into the durable cache
DurableWrite ==
    /\ last'.op = "loadTranslationsAsync"
    /\ last'.tier = "network"
    /\ persistentEnabled /\ hostStorage
    /\ last'.args.quota # "fail"

\* C24: after every durable write that completes, at most maxEntries entries
\* remain under the prefix
C24_AtMostMaxEntries ==
    [][ DurableWrite => Len(Prefixed(storage')) <= persistentMaxEntries ]_vars

\* The step takes the unexpired entry of url out of the durable cache
Evicts(url) ==
    /\ MapGet(storage, StorageKey(url)).found
    /\ MapGet(storage, StorageKey(url)).v.url = url
    /\ Age(url) <= persistentTtl
    /\ ~MapGet(storage', StorageKey(url)).found

\* C25: the durable cache evicts by recency of access: an entry that this
\* instance has read (its URL is in the in-process map) after a newer entry
\* was written (by an earlier instance: its URL is not in the in-process
\* map, its timestamp is greater) is not removed at the count limit while
\* that newer entry stays
C25_EvictsLeastRecentlyAccessed ==
    [][ \A used, idle \in EvictUrls :
           ~ /\ last'.op = "loadTranslationsAsync"
             /\ used \in DOMAIN loadedUrls
             /\ used # last'.args.url
             /\ Evicts(used)
             /\ idle \notin DOMAIN loadedUrls'
             /\ MapGet(storage, StorageKey(idle)).found
             /\ MapGet(storage', StorageKey(idle)).found
             /\ Age(idle) < Age(used) ]_vars

---------------------------------------------------------------------------
(* C26 *)

\* The entry that the step's call writes
WrittenEntry ==
    Entry(last'.args.url, now, Body(last'.args.array, last'.args.data))

\* C26: when setItem fails during a durable write, the cleanup pass runs
\* once and the write is retried once (the Storage is the cleaned one with
\* the entry set); when the retry fails too, nothing is written (the Storage
\* is the cleaned one); in every case the call returns without an error, the
\* bundle is merged into the locale's table and is in the in-process map
C26_WriteFailureRecovered ==
    [][ (last'.op = "loadTranslationsAsync" /\ last'.tier = "network"
            /\ persistentEnabled /\ hostStorage)
        => /\ ~last'.thrown
           /\ last'.errors = 0
           /\ MergedIn(last'.args.data)
           /\ last'.args.url \in DOMAIN loadedUrls'
           /\ TreeOf(heap', loadedUrls'[last'.args.url]) = last'.args.data
           /\ last'.args.quota = "retry"
              => storage' = MapSet(cleanupPersistentCache(This).storage,
                                   StorageKey(last'.args.url), WrittenEntry)
           /\ last'.args.quota = "fail"
              => storage' = cleanupPersistentCache(This).storage ]_vars

\* A call has returned after both setItem calls of its save failed: the
\* bundle is in the locale's table and in the in-process map, and the
\* durable cache, which holds other entries, has no entry of it
C26_Witness ==
    /\ last.op = "loadTranslationsAsync"
    /\ last.tier = "network"
    /\ last.args.quota = "fail"
    /\ ~last.thrown
    /\ last.args.url \in DOMAIN loadedUrls
    /\ Stored(last.args.locale, KeyG) = StringValue(<< "N" >>)
    /\ ~MapGet(storage, StorageKey(last.args.url)).found
    /\ storage # << >>

---------------------------------------------------------------------------
(* The durable cache on a host without a Storage or with items that other
   scripts have set *)

\* A key of the Storage that does not start with the prefix
KeyTheme == << "t", "h", "e", "m", "e" >>

\* Persistence is on or off, and the host has a Storage or has none
InitHost ==
    /\ \E withStorage \in BOOLEAN : HostStarts(withStorage)
    /\ \E enabled \in BOOLEAN :
          Constructed([DefaultOptions EXCEPT !.persistentCache = enabled, !.ttl = 1])

NextHost ==
    \/ \E url \in PersistUrls : LoadTranslationsAsync(ZH, url)
    \/ \E i \in 1..MaxPending : FetchSucceeds(i, PersistBundle)
    \/ \E item \in { Text, Fieldless, Entry(UrlAa, now, NoData) } :
          HostSets(StorageKey(UrlAa), item)
    \/ HostSets(KeyTheme, Text)
    \/ ClearPersistentCache
    \/ Reload(<< >>)

SpecHost == InitHost /\ [][NextHost]_vars

\* C27: clearPersistentCache() is an unconditional full clear: after it
\* returns no item whose key starts with the prefix remains and the
\* in-process map is empty, with or without a Storage in the host and with
\* persistence on or off
C27_ClearsBothTiers ==
    [][ last'.op = "clearPersistentCache"
        => Prefixed(storage') = << >> /\ loadedUrls' = << >> ]_vars

\* The item under the key of url is no entry with data: its text is not
\* JSON, or it says an object without the fields, or an entry without data
Malformed(url) ==
    /\ hostStorage
    /\ MapGet(storage, StorageKey(url)).found
    /\ \/ MapGet(storage, StorageKey(url)).v.tag # "entry"
       \/ MapGet(storage, StorageKey(url)).v.data = NoData

---------------------------------------------------------------------------
(* Overlapping calls of loadTranslationsAsync for one URL *)

\* Two bodies that the server may answer for the URL: { g: "N" }, { g: "M" }
BundleN == << Leaf(KeyG, << "N" >>) >>
BundleM == << Leaf(KeyG, << "M" >>) >>

\* Persistence is on and the host has a Storage
InitOverlap ==
    /\ HostStarts(TRUE)
    /\ Constructed([DefaultOptions EXCEPT !.persistentCache = TRUE, !.ttl = 1])

NextOverlap ==
    \/ \E locale \in { ZH, EN } : LoadTranslationsAsyncOverlapping(locale, UrlAa)
    \/ \E i \in 1..MaxOverlap : FetchFails(i)
    \/ \E i \in 1..MaxOverlap, data \in { BundleN, BundleM } : FetchSucceeds(i, data)
    \/ Tick

SpecOverlap == InitOverlap /\ [][NextOverlap]_vars

---------------------------------------------------------------------------
(* The current locale from construction on *)

\* navigator.language "en-US"
EnUS == << "e", "n", "-", "U", "S" >>

\* What navigator.language may be: nothing, "en", "en-US", "fr"
HostLanguages == { << >>, EN, EnUS, FR }

\* The registry is zh, en; the default locale is "zh", or "fr", which is not
\* in the registry; autoDetect is off, or on with the host's language
InitLocale ==
    /\ HostStarts(FALSE)
    /\ \E default \in { ZH, FR } :
          \/ Constructed([DefaultOptions EXCEPT !.defaultLocale = default,
                                                !.translations = CacheTables])
          \/ \E language \in HostLanguages :
                ConstructedDetecting([DefaultOptions EXCEPT
                                         !.defaultLocale = default,
                                         !.translations = CacheTables],
                                     language)

NextLocale ==
    \/ \E locale \in { ZH, EN, FR } : SetLocale(locale)
    \/ \E callback \in { "a", "s", "x" } : OnChange(callback)
    \/ RemoveAllListeners

SpecLocale == InitLocale /\ [][NextLocale]_vars

\* The current locale is the default locale or a member of the registry, and
\* the last setLocale(x) returned true exactly if x is a member of the
\* registry, getLocale() being a member after it returned true
LocaleInRegistry ==
    /\ getLocale(This) = defaultLocale \/ isLocaleSupported(This, getLocale(This))
    /\ last.op = "setLocale"
       => /\ ~last.thrown
          /\ last.ok <=> isLocaleSupported(This, last.args.locale)
          /\ last.ok => isLocaleSupported(This, getLocale(This))

\* C30: in every reachable state the current locale is the default locale
\* (or the registry member that the constructor detected) or a locale that a
\* successful setLocale installed: it is the default or a registry member
\* from construction on and changes only in a setLocale call that returns
\* true, to a member of the registry; setLocale(x) returns true if and only
\* if isLocaleSupported(x)
C30_LocaleInvariant ==
    /\ []LocaleInRegistry
    /\ [][ getLocale(This)' # getLocale(This)
           => /\ last'.op = "setLocale"
              /\ last'.ok
              /\ isLocaleSupported(This, currentLocale') ]_vars

\* With the default "fr" outside the registry, setLocale("zh") has returned
\* true after a listener switched on to "en"
C30_Witness ==
    /\ last.op = "setLocale"
    /\ last.ok
    /\ last.args.locale = ZH
    /\ defaultLocale = FR
    /\ getLocale(This) = EN

---------------------------------------------------------------------------
(* Interpolation of templates *)

KeyA == << "a" >>
KeyB == << "b" >>
KeyC == << "c" >>
KeyD == << "d" >>

\* The templates  <{x}>&{y}   {x}{x} {z} {}   {__proto__}   {x y}{x
InterpolateTables ==
    << Node(ZH, << Leaf(KeyA, << "<", "{", "x", "}", ">", "&", "{", "y", "}" >>),
                   Leaf(KeyB, << "{", "x", "}", "{", "x", "}", " ", "{", "z", "}",
                                 " ", "{", "}" >>),
                   Leaf(KeyC, << "{" >> \o PROTO \o << "}" >>),
                   Leaf(KeyD, << "{", "x", " ", "y", "}", "{", "x" >>) >>) >>

InterpolateKeys == { KeyA, KeyB, KeyC, KeyD }

\* No params, {}, { x: "<b>" }, { x: "{y}", y: "&'" }, { x: 1 }, { y: true },
\* { x: NaN }, { z: "\"" }
InterpolateParams ==
    { NoParams,
      Params(<< >>),
      Params(<< [k |-> << "x" >>, v |-> Str(<< "<", "b", ">" >>)] >>),
      Params(<< [k |-> << "x" >>, v |-> Str(<< "{", "y", "}" >>)],
                [k |-> << "y" >>, v |-> Str(<< "&", "'" >>)] >>),
      Params(<< [k |-> << "x" >>, v |-> Num(1)] >>),
      Params(<< [k |-> << "y" >>, v |-> BoolTrue] >>),
      XNaN,
      Params(<< [k |-> << "z" >>, v |-> Str(<< "\"" >>)] >>) }

\* The result cache is off; escapeHtml is on or off
InitInterpolate ==
    /\ HostStarts(FALSE)
    /\ \E escape \in BOOLEAN :
          Constructed([DefaultOptions EXCEPT !.translations = InterpolateTables,
                                             !.escapeHtml = escape])

NextInterpolate ==
    \/ \E key \in InterpolateKeys, params \in InterpolateParams : T(key, params)
    \/ \E locale \in { ZH, EN } : SetLocale(locale)

SpecInterpolate == InitInterpolate /\ [][NextInterpolate]_vars

\* The value that the parameter map itself holds for name
OwnValue(params, name) ==
    LET held == { i \in 1..Len(params.entries) : params.entries[i].k = name } IN
    IF held = { } THEN [found |-> FALSE, v |-> Str(<< >>)]
    ELSE [found |-> TRUE, v |-> params.entries[CHOOSE i \in held : TRUE].v]

\* text[i..j] is a placeholder: { , one or more word characters, }
IsPlaceholder(text, i, j) ==
    /\ i + 1 < j
    /\ text[i] = "{"
    /\ text[j] = "}"
    /\ \A k \in (i + 1)..(j - 1) : text[k] \in WORD_CHARS

RECURSIVE Substituted(_, _, _, _)
\* The reference substitution of text from index i on
Substituted(text, i, params, escape) ==
    IF i > Len(text) THEN << >>
    ELSE IF \E j \in i..Len(text) : IsPlaceholder(text, i, j)
    THEN LET j == CHOOSE j \in i..Len(text) : IsPlaceholder(text, i, j)
             name == SubSeq(text, i + 1, j - 1)
         IN (IF ~OwnValue(params, name).found THEN SubSeq(text, i, j)
             ELSE IF escape THEN escapeHtml(StringOf(OwnValue(params, name).v))
             ELSE StringOf(OwnValue(params, name).v))
            \o Substituted(text, j + 1, params, escape)
    ELSE << text[i] >> \o Substituted(text, i + 1, params, escape)

\* C31: t(key, params) of a key that the table holds returns the reference
\* substitution of the template: every {name} whose name has a value in the
\* map is replaced by the string of the value, escaped exactly when
\* escapeHtml is on; every other placeholder and all other text stay as they
\* are; without a parameter map the template is returned as it is
C31_ReferenceSubstitution ==
    (last.op = "t" /\ last.args.key \in InterpolateKeys)
    => last.ret = IF last.args.params.given
                  THEN Substituted(Stored(ZH, last.args.key).s, 1,
                                   last.args.params, escapeHtmlEnabled)
                  ELSE Stored(ZH, last.args.key).s

---------------------------------------------------------------------------
(* C32 *)

\* The cache key of the call t(key, params) that the step makes
CallCacheKey == getCacheKey(This, last'.args.key, last'.args.params)

\* The result cache after the step is the one before it without its first
\* `removed` entries and with the entry of the step's call at the end
InsertedAfterRemoving(removed) ==
    /\ Len(translationCache') = Len(translationCache) - removed + 1
    /\ \A i \in 1..(Len(translationCache) - removed) :
          translationCache'[i] = translationCache[i + removed]
    /\ translationCache'[Len(translationCache')]
          = [k |-> CallCacheKey, v |-> last'.ret]

\* C32: result-cache eviction is first-in-first-out: a t() call that hits
\* leaves the cache and its order as they are; a t() call that misses and
\* inserts removes exactly the earliest inserted entry when the cache holds
\* cacheMaxSize entries, and removes nothing when it holds fewer
C32_FifoEviction ==
    [][ (last'.op = "t" /\ cacheEnabled)
        => IF MapGet(translationCache, CallCacheKey).found
           THEN translationCache' = translationCache
           ELSE translationCache' # translationCache
                => IF Len(translationCache) < cacheMaxSize
                   THEN InsertedAfterRemoving(0)
                   ELSE InsertedAfterRemoving(1) ]_vars

---------------------------------------------------------------------------
(* C33 *)

\* The step is the rest of a loadTranslationsAsync call whose save ended
\* with the cleanup pass: setItem took the entry and the pass followed, or
\* both setItem calls threw and the pass ran between them
CleanupCompletes ==
    /\ last'.op = "loadTranslationsAsync"
    /\ last'.tier = "network"
    /\ persistentEnabled /\ hostStorage
    /\ last'.args.quota # "retry"

\* The Storage that the cleanup pass of the step starts from
BeforeCleanup ==
    IF last'.args.quota = "ok"
    THEN MapSet(storage, StorageKey(last'.args.url), WrittenEntry)
    ELSE storage

\* item is an entry that JSON.parse accepts and that is not older than ttl
Live(item) ==
    item.v.tag = "entry" /\ now - item.v.timestamp <= persistentTtl

\* C33: after a cleanup pass, no entry under the prefix is older than ttl,
\* none fails to deserialize, at most maxEntries remain under the prefix,
\* the live entries that were removed have the smallest timestamps, and the
\* items whose key does not start with the prefix are as they were
C33_CleanupPostcondition ==
    [][ CleanupCompletes
        => /\ \A i \in 1..Len(Prefixed(storage')) :
                 /\ Prefixed(storage')[i].v.tag # "text"
                 /\ Prefixed(storage')[i].v.tag = "entry"
                    => now - Prefixed(storage')[i].v.timestamp <= persistentTtl
           /\ Len(Prefixed(storage')) <= persistentMaxEntries
           /\ \A i \in 1..Len(Prefixed(BeforeCleanup)) :
              \A j \in 1..Len(Prefixed(storage')) :
                 ( /\ Live(Prefixed(BeforeCleanup)[i])
                   /\ ~MapGet(storage', Prefixed(BeforeCleanup)[i].k).found
                   /\ Prefixed(storage')[j].v.tag = "entry" )
                 => Prefixed(BeforeCleanup)[i].v.timestamp
                       <= Prefixed(storage')[j].v.timestamp
           /\ WithoutPrefixed(storage') = WithoutPrefixed(storage) ]_vars

---------------------------------------------------------------------------
(* The key-path cache up to its limit *)

\* A key that no earlier call has resolved: the numeral of the number of
\* memoized numerals (every memoized numeral is less)
FreshKey == Decimal(Cardinality(DOMAIN keyCache \ { KeyNH }))

InitKeyPath ==
    /\ HostStarts(FALSE)
    /\ Constructed([DefaultOptions EXCEPT !.translations = ResolveTables])

NextKeyPath ==
    \/ T(FreshKey, NoParams)
    \/ T(KeyNH, NoParams)

SpecKeyPath == InitKeyPath /\ [][NextKeyPath]_vars

(* C34 *)

\* The key-path cache holds at most 1000 entries, each the split of its key
KeyPathsSplit ==
    /\ Cardinality(DOMAIN keyCache) <= 1000
    /\ \A key \in DOMAIN keyCache : keyCache[key] = Split(key)

\* The step keeps every entry of the key-path cache as it is
KeyPathsKept ==
    \A key \in DOMAIN keyCache :
       key \in DOMAIN keyCache' /\ keyCache'[key] = keyCache[key]

\* The engine with no key memoized
Unmemoized == [This EXCEPT !.keyCache = << >>]

\* C34: the key-path cache holds at most 1000 entries, each equal to the
\* split of its key on "."; no step evicts or alters an entry; t returns what
\* it returns with no key memoized; and a key first resolved when the cache
\* holds 1000 entries is resolved the same and is not inserted
C34_KeyPathCache ==
    /\ []KeyPathsSplit
    /\ [][ /\ KeyPathsKept
           /\ last'.op = "t"
              => /\ last'.ret = t(Unmemoized, last'.args.key, last'.args.params).ret
                 /\ ( /\ Cardinality(DOMAIN keyCache) = 1000
                      /\ last'.args.key \notin DOMAIN keyCache )
                    => keyCache' = keyCache ]_vars

\* t("n.h") has returned "H" for a key first seen with the cache full: the
\* cache holds 1000 other keys and not this one
C34_Witness ==
    /\ last.op = "t"
    /\ last.args.key = KeyNH
    /\ last.ret = << "H" >>
    /\ Cardinality(DOMAIN keyCache) = 1000
    /\ KeyNH \notin DOMAIN keyCache

---------------------------------------------------------------------------
(* Loads into two locales that start without a table *)

\* The data { n: { h: "K" } } and { n: { h: "X" } }
IsolateLoads ==
    { << Node(KeyN, << Leaf(KeyH, << "K" >>) >>) >>,
      << Node(KeyN, << Leaf(KeyH, << "X" >>) >>) >> }

InitIsolate ==
    /\ HostStarts(FALSE)
    /\ Constructed(DefaultOptions)

NextIsolate ==
    \/ \E locale \in { ZH, EN }, data \in IsolateLoads : LoadTranslations(locale, data)
    \/ \E locale \in { ZH, EN } : LoadTranslationsAsync(locale, UrlAa)
    \/ \E i \in 1..MaxPending, data \in IsolateLoads : FetchSucceeds(i, data)
    \/ \E locale \in { ZH, EN } : SetLocale(locale)
    \/ T(KeyNH, NoParams)

SpecIsolate == InitIsolate /\ [][NextIsolate]_vars

(* C35 *)

\* C35: loadTranslations(L, d) changes only L's tree: the tree of every
\* other locale, and so what any key resolves to in it, is the same before
\* and after the call
C35_LocaleIsolation ==
    [][ last'.op = "loadTranslations"
        => \A other \in { ZH, EN } \ { last'.args.locale } :
              TreeOfLocale(heap', translations', other)
                 = TreeOfLocale(heap, translations, other) ]_vars

(* C36 *)

\* C36: the bundle that the in-process map holds for a URL is not changed by
\* a later loadTranslations or loadTranslationsAsync call, so a memory hit
\* merges the content first obtained for the URL
C36_BundleIntegrity ==
    [][ last'.op \in { "loadTranslations", "loadTranslationsAsync" }
        => \A url \in DOMAIN loadedUrls :
              /\ url \in DOMAIN loadedUrls'
              /\ TreeOf(heap', loadedUrls'[url]) = TreeOf(heap, loadedUrls[url]) ]_vars

---------------------------------------------------------------------------
(* C37 *)

\* The engine as it is but configured with the missing-key policy
WithPolicy(policy) == [This EXCEPT !.fallbackBehavior = policy]

\* t(key, params) of the engine configured with policy: the string returned
\* and the engine afterwards, its policy left out
UnderPolicy(policy, key, params) ==
    [ret |-> t(WithPolicy(policy), key, params).ret,
     e |-> [t(WithPolicy(policy), key, params).e EXCEPT !.fallbackBehavior = ""]]

\* C37: in every state, for every key and params, t of the engine configured
\* with the policy "default" returns the string that t of the same engine
\* configured with "key" returns, and leaves the same engine
C37_DefaultPolicyIsKeyPolicy ==
    \A key \in ResolveKeys, params \in CacheParams :
       UnderPolicy("default", key, params) = UnderPolicy("key", key, params)

\* An engine with the policy "default" and the current locale "en" has
\* returned the key "q", which neither table holds, from the policy step
C37_Witness ==
    /\ last.op = "t"
    /\ fallbackBehavior = "default"
    /\ currentLocale = EN
    /\ last.args.key = KeyQ
    /\ last.ret = KeyQ
    /\ Stored(EN, KeyQ) = Undefined
    /\ Stored(ZH, KeyQ) = Undefined

---------------------------------------------------------------------------
(* C38 *)

\* C38: the result-cache key is injective over calls: two t() calls in a
\* row (so under one current locale) that differ in their key or in their
\* params do not have the same cache key
C38_CacheKeyInjective ==
    [][ ( /\ cacheEnabled
          /\ last.op = "t"
          /\ last'.op = "t"
          /\ << last.args.key, last.args.params >>
                # << last'.args.key, last'.args.params >> )
        => CallCacheKey # LastCacheKey ]_vars

---------------------------------------------------------------------------
(* C39 *)

\* The indexes of the calls of listener function fn that the most recent
\* operation made
CallsOf(fn) == { i \in 1..Len(last.calls) : last.calls[i].fn = fn }

\* The greatest member of a non-empty set of numbers
Greatest(S) == CHOOSE n \in S : \A m \in S : m <= n

\* C39: when a setLocale call that notified returns true, the locale most
\* recently delivered to each registered listener, and the one the most
\* recent host event carries, is getLocale(), also when a listener called
\* setLocale during the notification
C39_LastDeliveredIsCurrent ==
    (last.op = "setLocale" /\ last.ok /\ ~last.thrown)
    => /\ \A i \in 1..Len(callbacks) :
             CallsOf(callbacks[i]) # { }
             => last.calls[Greatest(CallsOf(callbacks[i]))].arg = getLocale(This)
       /\ last.events # << >>
          => last.events[Len(last.events)].locale = getLocale(This)

---------------------------------------------------------------------------
(* The durable cache shared with another engine of the page, which writes
   its own entries; this engine keeps one entry *)

SurviveUrls == { UrlAa, UrlBB, UrlU1 }

InitSurvive ==
    /\ HostStarts(TRUE)
    /\ Constructed([DefaultOptions EXCEPT !.persistentCache = TRUE,
                                          !.maxEntries = 1, !.ttl = 1])

NextSurvive ==
    \/ \E url \in SurviveUrls : LoadTranslationsAsync(ZH, url)
    \/ \E i \in 1..MaxPending : FetchSucceeds(i, PersistBundle)
    \/ \E url \in SurviveUrls :
          HostSets(StorageKey(url), Entry(url, now, Body(FALSE, PersistBundle)))
    \/ Tick
    \/ Reload(<< >>)

SpecSurvive == InitSurvive /\ [][NextSurvive]_vars

(* C40 *)

\* C40: with maxEntries >= 1 and ttl > 0, the cleanup pass that follows a
\* successful durable write of a URL does not remove the entry just written:
\* after the call the Storage holds it under the URL's key
C40_FreshEntrySurvives ==
    [][ ( /\ last'.op = "loadTranslationsAsync"
          /\ last'.tier = "network"
          /\ persistentEnabled /\ hostStorage
          /\ last'.args.quota = "ok"
          /\ persistentMaxEntries >= 1
          /\ persistentTtl > 0 )
        => /\ MapGet(storage', StorageKey(last'.args.url)).found
           /\ MapGet(storage', StorageKey(last'.args.url)).v = WrittenEntry ]_vars

====
